---- MODULE Spec2Model ----
(***************************************************************************)
(* Security middleware core of byfractal/core, as documented with its     *)
(* code in docs/security/TECHNICAL_DETAILS.md: JWT token service with      *)
(* blacklisting, fixed/sliding window rate limiting on Redis, and the      *)
(* two-tier AES/HMAC encryption key manager.                               *)
(*                                                                         *)
(* Time is counted in clock ticks, TicksPerSec ticks to the second, so     *)
(* that the float timestamps of the code (time.time(), .timestamp()) and   *)
(* its int(...) truncations to whole seconds are both represented.         *)
(***************************************************************************)
EXTENDS Integers, Sequences, FiniteSets, TLC

VARIABLES
    now,             \* the wall clock, in ticks
    backend,         \* which blacklist_token is deployed: "memory" | "redis"
    tokens,          \* jti -> payload of every token create_token has returned
    TOKEN_BLACKLIST, \* the in-process set of blacklisted jti
    redisBlacklist,  \* Redis keys blacklist:<jti> -> tick at which the key expires
    given,           \* history: jti -> the subject, scopes and kind handed to issue
    revoked,         \* history: jti of the tokens blacklist_token was called on while decodable
    refreshed,       \* history: jti -> number of token pairs refresh returned for it
    rpc,             \* refresh caller -> "idle" | "verified" | "done"
    rtok,            \* refresh caller -> the token it presented
    rout,            \* refresh caller -> "none" | "pair" | the error raised
    fwCounters,      \* Redis keys <<key, bucket>> -> counter of the fixed window
    fcall,           \* rate-limit caller -> its is_rate_limited call, fixed window
    fwSeen,          \* history: key -> latest bucket and the calls started in it
    fwAdmitted,      \* history: <<key, bucket>> -> calls that returned not limited
    fwAdmittedAt,    \* history: key -> timestamp -> calls of that timestamp that returned not limited
    fwLast,          \* history: the last fixed-window call that returned
    swSets,          \* Redis keys key -> sorted set of the sliding window
    scall,           \* rate-limit caller -> its is_rate_limited call, sliding window
    swStarted,       \* history: key -> sliding-window calls started
    swAdmitted,      \* history: key -> timestamp -> calls that returned not limited
    swLast,          \* history: the last sliding-window call that returned
    keys,            \* EncryptionKeyManager.keys: key id -> data encryption key
    current_key_id,  \* EncryptionKeyManager.current_key_id, 0 for None
    keysFile,        \* the keys file written by _save_keys
    sealed,          \* the payload returned by the last encrypt
    plain,           \* history: the plaintext given to the last encrypt
    opened,          \* the outcome of decrypt on the sealed payload
    tcall,           \* thread -> its rotate_key call on the manager of the process
    built,           \* history: how the constructor obtained the keyring of the manager
    ppc,             \* process -> "down" | "init" | "generate" | "up"
    pkeys,           \* process -> the keys of its EncryptionKeyManager
    pcurrent,        \* process -> the current_key_id of its manager, 0 for None
    uuids,           \* number of uuid4 key ids drawn so far
    referenced,      \* history: the keys some encrypt call has used, with their ids
    config,          \* the arguments configure_security_middlewares was called with
    last,            \* the request being answered and the response built for it
    redisUp          \* whether Redis answers; a command sent while it does not raises

tokenVars == <<backend, tokens, TOKEN_BLACKLIST, redisBlacklist, given, revoked, refreshed>>
pipeVars == <<config, last, redisUp>>
callVars == <<rpc, rtok, rout, pipeVars>>
fixedVars == <<fwCounters, fcall, fwSeen, fwAdmitted, fwAdmittedAt, fwLast>>
slidingVars == <<swSets, scall, swStarted, swAdmitted, swLast>>

procVars == <<ppc, pkeys, pcurrent, uuids, referenced, tcall>>
cryptoVars == <<keys, current_key_id, keysFile, sealed, plain, opened, built, procVars>>

vars == <<now, tokenVars, callVars, fixedVars, slidingVars, cryptoVars>>

----------------------------------------------------------------------------
(* Bounds of the model *)

TicksPerSec == 2
MaxTime == 6             \* ticks of wall clock explored
AccessLifetime == 1      \* seconds (JWT_ACCESS_TOKEN_EXPIRE_MINUTES, scaled)
RefreshLifetime == 2     \* seconds (JWT_REFRESH_TOKEN_EXPIRE_DAYS, scaled)
MaxTokens == 4           \* tokens issued in one behaviour
WindowSeconds == 2       \* window_seconds (RATE_LIMIT_WINDOW_SECONDS, scaled)
MaxRequests == 2         \* max_requests (RATE_LIMIT_DEFAULT, scaled)
BlockSize == 2           \* bytes in a cipher block (algorithms.AES.block_size, scaled)
MaxLen == 2              \* characters in a plaintext
MaxKeys == 2             \* data encryption keys generated in one behaviour
MaxLogins == 1           \* logins in one behaviour of the middleware pipeline

\* The principals that log in, each with the scopes of its roles
Principals == {[sub |-> "alice", scopes |-> {"read"}],
               [sub |-> "bob", scopes |-> {"read", "write"}]}
TokenTypes == {"access", "refresh"}
\* Concurrent callers of the refresh route
Callers == {"c1", "c2"}
\* Rate-limit keys and the concurrent requests that are checked against them
Keys == {"ip:10.0.0.1"}
RlCallers == {"w1", "w2"}
\* Processes that construct an EncryptionKeyManager on the same keys file
Procs == {"p1", "p2"}
WindowTicks == WindowSeconds * TicksPerSec
\* The rate limiter is explored over two whole windows
RlMaxTime == 2 * WindowTicks
\* The values of int(time.time()) within the rate limiter's clock
Timestamps == 0 .. (RlMaxTime \div TicksPerSec)

Buckets == 0 .. ((RlMaxTime \div TicksPerSec) \div WindowSeconds)
\* Calls explored per key and bucket (fixed) or per key (sliding)
MaxCalls == MaxRequests + 2

Max(a, b) == IF a >= b THEN a ELSE b

\* int(x) of a non-negative duration x given in ticks: whole seconds, truncated
IntSeconds(ticks) == ticks \div TicksPerSec

----------------------------------------------------------------------------
(* Token service *)

Lifetime(token_type) ==
    (IF token_type = "access" THEN AccessLifetime ELSE RefreshLifetime) * TicksPerSec

\* create_token: the payload that jwt.encode signs with SECRET_KEY
create_token(subject, scopes, expires_delta, token_type, jti) ==
    [sub |-> subject, scopes |-> scopes, exp |-> now + expires_delta,
     iat |-> now, jti |-> jti, type |-> token_type, sig |-> "SECRET_KEY"]

\* A token whose signature does not verify under SECRET_KEY
Forge(token) == [token EXCEPT !.sig = "forged"]

\* Mutant of jwt_decode: the expiry check reads iat where it should read exp
jwt_decode_iat(token) ==
    IF token.sig # "SECRET_KEY" THEN "JWTError"
    ELSE IF now > token.iat THEN "ExpiredSignatureError"
    ELSE "payload"

\* jwt.decode(token, SECRET_KEY, algorithms): signature first, then the exp claim
jwt_decode(token) ==
    IF token.sig # "SECRET_KEY" THEN "JWTError"
    ELSE IF now > token.exp THEN "ExpiredSignatureError"
    ELSE "payload"

\* is_token_blacklisted (Redis): GET blacklist:<jti>
is_token_blacklisted(jti) == jti \in DOMAIN redisBlacklist

\* The blacklist test of verify_jwt_token: `jti in TOKEN_BLACKLIST` in process,
\* is_token_blacklisted(jti) where the Redis blacklist replaces the set
InBlacklist(jti) ==
    IF backend = "memory" THEN jti \in TOKEN_BLACKLIST ELSE is_token_blacklisted(jti)

NoClaims == [sub |-> "none", scopes |-> {}]

\* Mutant of verify_jwt_token: the token type check is missing
verify_jwt_token_nokind(token, token_type) ==
    LET decoded == jwt_decode(token) IN
    IF decoded = "ExpiredSignatureError" THEN [res |-> "ExpiredToken"] @@ NoClaims
    ELSE IF decoded = "JWTError" THEN [res |-> "InvalidSignature"] @@ NoClaims
    ELSE IF InBlacklist(token.jti) THEN [res |-> "RevokedToken"] @@ NoClaims
    ELSE [res |-> "ok", sub |-> token.sub, scopes |-> token.scopes]

\* verify_jwt_token(token, token_type) -> TokenData, or the error it raises
verify_jwt_token(token, token_type) ==
    LET decoded == jwt_decode(token) IN
    IF decoded = "ExpiredSignatureError" THEN [res |-> "ExpiredToken"] @@ NoClaims
    ELSE IF decoded = "JWTError" THEN [res |-> "InvalidSignature"] @@ NoClaims
    ELSE IF token.type # token_type THEN [res |-> "WrongTokenKind"] @@ NoClaims
    ELSE IF InBlacklist(token.jti) THEN [res |-> "RevokedToken"] @@ NoClaims
    ELSE [res |-> "ok", sub |-> token.sub, scopes |-> token.scopes]

\* blacklist_token, in-memory variant: the new TOKEN_BLACKLIST
blacklist_memory(token) ==
    IF jwt_decode(token) = "payload"
    THEN TOKEN_BLACKLIST \cup {token.jti}
    ELSE TOKEN_BLACKLIST

\* blacklist_token, Redis variant: ttl = max(0, int(exp - now)); SET ... EX ttl.
\* Redis refuses EX 0, so no key is written for a token in its last second.
blacklist_redis(token) ==
    LET ttl == Max(0, IntSeconds(token.exp - now)) IN
    IF jwt_decode(token) = "payload" /\ ttl > 0
    THEN (token.jti :> (now + ttl * TicksPerSec)) @@ redisBlacklist
    ELSE redisBlacklist

\* Redis drops a key once its expiry time is reached
ExpireKeys(store, t) == [k \in {j \in DOMAIN store : store[j] > t} |-> store[k]]

Issued == {tokens[j] : j \in DOMAIN tokens}
Presentable == Issued \cup {Forge(t) : t \in Issued}

\* Request paths, as their segments: /health, /docs/openapi, /internal/metrics
\* and /api/items
Paths == {<<"health">>, <<"docs", "openapi">>, <<"internal", "metrics">>, <<"api", "items">>}
\* The module constants _is_path_excluded reads
PUBLIC_PATHS == {<<"health">>}
PUBLIC_PATH_PREFIXES == {<<"docs">>}
\* The scopes a route declares with Security(get_current_user, scopes=[...]);
\* a route without the dependency declares none and is not in the domain
RouteScopes == (<<"api", "items">> :> <<"read", "write">>)
\* Request bodies, as their fragments: plain text, a match of the SQL
\* injection pattern, a match of the XSS pattern, a byte that is not valid UTF-8
Bodies == {<< >>, <<"hello">>, <<"' OR 1=1 --">>, <<"<script>", "' OR 1=1 --">>, <<"0xFF">>}
\* Method and Content-Type header of a request
Kinds == {[method |-> "POST", content_type |-> "application/json"],
          [method |-> "POST", content_type |-> "text/plain"],
          [method |-> "GET", content_type |-> ""]}

\* configure_security_middlewares with its default arguments; jwt_secret_key
\* and redis_url are set, validate_input is left at True
DefaultConfig == [exclude_paths |-> << >>, log_violations |-> TRUE, block_violations |-> TRUE]
\* The configurations explored: an exempt path given or not, reject mode or
\* log-and-allow mode; violations are logged, as by default
Configs == [exclude_paths : {<< >>, << <<"internal", "metrics">> >>},
            log_violations : {TRUE}, block_violations : BOOLEAN]

NoRequest == [path |-> << >>, auth |-> << >>, body |-> << >>,
              method |-> "none", content_type |-> ""]
\* No request is being answered
NoOutcome == [req |-> NoRequest, status |-> 0, detail |-> "none", headers |-> {},
              handled |-> FALSE, user_id |-> "none", scopes |-> {},
              verdict |-> "none", retry_after |-> 0, logged |-> << >>]

TokenInit ==
    /\ tokens = << >>
    /\ TOKEN_BLACKLIST = {}
    /\ redisBlacklist = << >>
    /\ given = << >>
    /\ revoked = {}
    /\ refreshed = << >>

CallersIdle ==
    /\ rpc = [c \in Callers |-> "idle"]
    /\ rtok = [c \in Callers |-> 0]
    /\ rout = [c \in Callers |-> "none"]
    /\ config = DefaultConfig
    /\ last = NoOutcome
    /\ redisUp = TRUE

----------------------------------------------------------------------------
(* Rate limiter: the Redis commands and the two strategies *)

\* A Redis key that carries a value and, once EXPIRE ran, an expiry time
NewKey(value) == [value |-> value, timed |-> FALSE, exp |-> 0]

\* Redis drops a counter or sorted set once its expiry time is reached
ExpireCounters(store, t) ==
    [k \in {j \in DOMAIN store : ~store[j].timed \/ store[j].exp > t} |-> store[k]]

\* INCR k: the store afterwards; the reply is the new value
redis_incr(store, k) ==
    IF k \in DOMAIN store
    THEN [store EXCEPT ![k].value = @ + 1]
    ELSE (k :> NewKey(1)) @@ store

\* EXPIRE k seconds
redis_expire(store, k, seconds) ==
    IF k \in DOMAIN store
    THEN [store EXCEPT ![k].timed = TRUE, ![k].exp = now + seconds * TicksPerSec]
    ELSE store

\* ZADD k {str(score): score}: the member is the text of the score
redis_zadd(store, k, score) ==
    IF k \in DOMAIN store
    THEN [store EXCEPT ![k].value = @ \cup {score}]
    ELSE (k :> NewKey({score})) @@ store

\* ZREMRANGEBYSCORE k lo hi, bounds inclusive; an emptied set is deleted
redis_zremrangebyscore(store, k, lo, hi) ==
    IF k \notin DOMAIN store THEN store
    ELSE LET kept == {m \in store[k].value : ~(lo <= m /\ m <= hi)} IN
         IF kept = {}
         THEN [j \in DOMAIN store \ {k} |-> store[j]]
         ELSE [store EXCEPT ![k].value = kept]

\* ZCARD k
redis_zcard(store, k) == IF k \in DOMAIN store THEN Cardinality(store[k].value) ELSE 0

\* ZRANGE k 0 0 WITHSCORES: the lowest score, as a set of at most one element
redis_zrange_first(store, k) ==
    IF k \in DOMAIN store
    THEN {m \in store[k].value : \A n \in store[k].value : m <= n}
    ELSE {}

\* f"{key}:{timestamp // self.window_seconds}"
window_key(key, timestamp) == <<key, timestamp \div WindowSeconds>>

\* Mutant of fixed_window_result: the limit is reached one call early
fixed_window_result_early(timestamp, count) ==
    IF count >= MaxRequests
    THEN [limited |-> TRUE,
          retry_after |-> (timestamp \div WindowSeconds + 1) * WindowSeconds - timestamp]
    ELSE [limited |-> FALSE, retry_after |-> 0]

\* Mutant of fixed_window_result: the limit is reached one call late
fixed_window_result_late(timestamp, count) ==
    IF count > MaxRequests + 1
    THEN [limited |-> TRUE,
          retry_after |-> (timestamp \div WindowSeconds + 1) * WindowSeconds - timestamp]
    ELSE [limited |-> FALSE, retry_after |-> 0]

\* FixedWindowStrategy.is_rate_limited, from the reply of INCR to the return
fixed_window_result(timestamp, count) ==
    IF count > MaxRequests
    THEN [limited |-> TRUE,
          retry_after |-> (timestamp \div WindowSeconds + 1) * WindowSeconds - timestamp]
    ELSE [limited |-> FALSE, retry_after |-> 0]

\* int(x) of a duration x in ticks of either sign: truncation towards zero
IntTrunc(ticks) ==
    IF ticks >= 0 THEN ticks \div TicksPerSec ELSE -((-ticks) \div TicksPerSec)

\* SlidingWindowStrategy.is_rate_limited, from the reply of ZCARD to the
\* return; oldest is the reply of ZRANGE
\* Mutant of sliding_window_result: retry_after is not raised to 1
sliding_window_result_raw(t, count, oldest) ==
    IF count > MaxRequests
    THEN IF oldest # {}
         THEN [limited |-> TRUE,
               retry_after |-> IntTrunc(WindowTicks - (t - (CHOOSE m \in oldest : TRUE)))]
         ELSE [limited |-> TRUE, retry_after |-> WindowSeconds]
    ELSE [limited |-> FALSE, retry_after |-> 0]

sliding_window_result(t, count, oldest) ==
    IF count > MaxRequests
    THEN IF oldest # {}
         THEN [limited |-> TRUE,
               retry_after |-> Max(1, IntTrunc(WindowTicks - (t - (CHOOSE m \in oldest : TRUE))))]
         ELSE [limited |-> TRUE, retry_after |-> WindowSeconds]
    ELSE [limited |-> FALSE, retry_after |-> 0]

IdleCall == [pc |-> "idle", key |-> "none", ts |-> 0, ord |-> 0, count |-> 0]
NoCall == [key |-> "none", ts |-> 0, ord |-> 0, limited |-> FALSE, retry_after |-> 0]

\* EncryptionKeyManager.__init__ before _load_or_initialize_keys: no key, no
\* current key id; no keys file on disk, nothing encrypted yet
NoFile == [exists |-> FALSE, master |-> "none",
           data |-> [current_key_id |-> 0, keys |-> << >>]]
NoPayload == [kid |-> 0, iv |-> << >>, ct |-> << >>, tag |-> << >>]
NotOpened == [ok |-> FALSE, text |-> << >>, err |-> "none"]

\* The threads of one process and a thread that is in no rotate_key call
Threads == {"t1", "t2"}
NoRotation == [pc |-> "idle", key_id |-> 0, keys_data |-> NoFile.data]

ManagerDown ==
    /\ keys = << >>
    /\ current_key_id = 0
    /\ built = "none"
    /\ sealed = NoPayload
    /\ plain = << >>
    /\ opened = NotOpened
    /\ ppc = [p \in Procs |-> "down"]
    /\ pkeys = [p \in Procs |-> << >>]
    /\ pcurrent = [p \in Procs |-> 0]
    /\ uuids = 0
    /\ referenced = {}
    /\ tcall = [t \in Threads |-> NoRotation]

\* A keys file written under another master key: Fernet raises InvalidToken
ForeignFile ==
    [exists |-> TRUE, master |-> "OTHER_MASTER_KEY",
     data |-> [current_key_id |-> 1, keys |-> (1 :> <<0, 16>>)]]

\* No manager is constructed and there is no keys file
KeyManagerInit == ManagerDown /\ keysFile = NoFile

RateInit ==
    /\ fwCounters = << >>
    /\ fcall = [c \in RlCallers |-> IdleCall]
    /\ fwSeen = [k \in Keys |-> [bucket |-> 0, n |-> 0]]
    /\ fwAdmitted = [w \in Keys \X Buckets |-> 0]
    /\ fwAdmittedAt = [k \in Keys |-> [t \in Timestamps |-> 0]]
    /\ fwLast = NoCall
    /\ swSets = << >>
    /\ scall = [c \in RlCallers |-> IdleCall]
    /\ swStarted = [k \in Keys |-> 0]
    /\ swAdmitted = [k \in Keys |-> [t \in 0 .. RlMaxTime |-> 0]]
    /\ swLast = NoCall

\* One tick passes; Redis expires what is due
AdvanceClock ==
    /\ now' = now + 1
    /\ redisBlacklist' = ExpireKeys(redisBlacklist, now + 1)
    /\ fwCounters' = ExpireCounters(fwCounters, now + 1)
    /\ swSets' = ExpireCounters(swSets, now + 1)

----------------------------------------------------------------------------
(* Token service: the operations *)

\* The clock advances by one tick
Tick ==
    /\ now < MaxTime
    /\ AdvanceClock
    /\ UNCHANGED <<backend, tokens, TOKEN_BLACKLIST, given, revoked, refreshed, callVars, cryptoVars>>
    /\ UNCHANGED <<fcall, fwSeen, fwAdmitted, fwAdmittedAt, fwLast, scall, swStarted, swAdmitted, swLast>>

\* issue(subject, scopes, kind): create_token with the lifetime of the kind.
\* A subject logs in once; its later tokens come from refresh.
Issue(subject, scopes, token_type) ==
    LET jti == Len(tokens) + 1 IN
    /\ jti <= MaxTokens
    /\ \A j \in DOMAIN tokens : tokens[j].sub # subject
    /\ tokens' = Append(tokens, create_token(subject, scopes, Lifetime(token_type), token_type, jti))
    /\ given' = Append(given, [sub |-> subject, scopes |-> scopes, type |-> token_type])
    /\ refreshed' = Append(refreshed, 0)
    /\ UNCHANGED <<now, backend, TOKEN_BLACKLIST, redisBlacklist, revoked, callVars>>
    /\ UNCHANGED <<fixedVars, slidingVars, cryptoVars>>

\* The stores after the deployed blacklist_token(token)
Blacklisted(token) ==
    IF backend = "memory"
    THEN [set |-> blacklist_memory(token), redis |-> redisBlacklist]
    ELSE [set |-> TOKEN_BLACKLIST, redis |-> blacklist_redis(token)]

\* revoke(token)
Revoke(token) ==
    /\ TOKEN_BLACKLIST' = Blacklisted(token).set
    /\ redisBlacklist' = Blacklisted(token).redis
    /\ revoked' = IF jwt_decode(token) = "payload" THEN revoked \cup {token.jti} ELSE revoked
    /\ UNCHANGED <<now, backend, tokens, given, refreshed, callVars, cryptoVars>>
    /\ UNCHANGED <<fixedVars, slidingVars, cryptoVars>>

\* The second half of refresh(refreshToken), once it verified as kind refresh
\* with claims r: blacklist it and issue a new access+refresh pair for the
\* same subject and scopes
RotateTokens(token, r) ==
    LET jti == Len(tokens) + 1 IN
    /\ TOKEN_BLACKLIST' = Blacklisted(token).set
    /\ redisBlacklist' = Blacklisted(token).redis
    /\ revoked' = IF jwt_decode(token) = "payload" THEN revoked \cup {token.jti} ELSE revoked
    /\ tokens' = tokens \o
           << create_token(r.sub, r.scopes, Lifetime("access"), "access", jti),
              create_token(r.sub, r.scopes, Lifetime("refresh"), "refresh", jti + 1) >>
    /\ given' = given \o << [sub |-> r.sub, scopes |-> r.scopes, type |-> "access"],
                           [sub |-> r.sub, scopes |-> r.scopes, type |-> "refresh"] >>
    /\ refreshed' = [refreshed EXCEPT ![token.jti] = @ + 1] \o <<0, 0>>

\* refresh(refreshToken), a call that runs without interference. A failed
\* call changes nothing.
Refresh(token) ==
    LET r == verify_jwt_token(token, "refresh") IN
    /\ r.res = "ok"
    /\ Len(tokens) + 2 <= MaxTokens
    /\ RotateTokens(token, r)
    /\ UNCHANGED <<now, backend, callVars, fixedVars, slidingVars, cryptoVars>>

\* refresh(refreshToken) under concurrent callers, first half: verify the
\* token as kind refresh. In process the synchronous call runs to its end
\* before another starts; instances that share the Redis blacklist interleave
\* between the lookup and the write.
RefreshVerify(c, token) ==
    LET r == verify_jwt_token(token, "refresh") IN
    /\ rpc[c] = "idle"
    /\ backend = "memory" => \A d \in Callers : rpc[d] # "verified"
    /\ rtok' = [rtok EXCEPT ![c] = token.jti]
    /\ IF r.res = "ok"
       THEN rpc' = [rpc EXCEPT ![c] = "verified"] /\ UNCHANGED rout
       ELSE rpc' = [rpc EXCEPT ![c] = "done"] /\ rout' = [rout EXCEPT ![c] = r.res]
    /\ UNCHANGED <<now, tokenVars, pipeVars, fixedVars, slidingVars, cryptoVars>>

\* refresh(refreshToken), second half: blacklist the token, return the new pair
RefreshRotate(c) ==
    /\ rpc[c] = "verified"
    /\ RotateTokens(tokens[rtok[c]], given[rtok[c]])
    /\ rpc' = [rpc EXCEPT ![c] = "done"]
    /\ rout' = [rout EXCEPT ![c] = "pair"]
    /\ UNCHANGED <<now, backend, rtok, pipeVars, fixedVars, slidingVars, cryptoVars>>

Init ==
    /\ now = 0
    /\ backend \in {"memory", "redis"}
    /\ TokenInit /\ CallersIdle /\ RateInit /\ KeyManagerInit

Next ==
    \/ Tick
    \/ \E p \in Principals, k \in TokenTypes : Issue(p.sub, p.scopes, k)
    \/ \E t \in Presentable : Revoke(t)
    \/ \E t \in Presentable : Refresh(t)

Spec == Init /\ [][Next]_vars

\* Concurrent callers of the refresh route
NextRefresh ==
    \/ Tick
    \/ \E p \in Principals, k \in TokenTypes : Issue(p.sub, p.scopes, k)
    \/ \E c \in Callers, t \in Issued : RefreshVerify(c, t)
    \/ \E c \in Callers : RefreshRotate(c)

SpecRefresh == Init /\ [][NextRefresh]_vars

----------------------------------------------------------------------------
(* Rate limiter: is_rate_limited, one action per Redis round trip *)

\* No is_rate_limited call is in flight
Quiet == \A c \in RlCallers : fcall[c].pc = "idle" /\ scall[c].pc = "idle"

\* The clock of the rate limiter
TickWindow ==
    /\ now < RlMaxTime
    /\ AdvanceClock
    /\ UNCHANGED <<backend, tokens, TOKEN_BLACKLIST, given, revoked, refreshed, callVars, cryptoVars>>
    /\ UNCHANGED <<fcall, fwSeen, fwAdmitted, fwAdmittedAt, fwLast, scall, swStarted, swAdmitted, swLast>>

\* Fixed window: timestamp = int(time.time()) and the window key
FwStart(c, key) ==
    LET timestamp == IntSeconds(now)
        bucket == timestamp \div WindowSeconds
        n == IF fwSeen[key].bucket = bucket THEN fwSeen[key].n + 1 ELSE 1
    IN
    /\ fcall[c].pc = "idle"
    /\ n <= MaxCalls
    /\ fcall' = [fcall EXCEPT ![c] =
                    [pc |-> "incr", key |-> key, ts |-> timestamp, ord |-> n, count |-> 0]]
    /\ fwSeen' = [fwSeen EXCEPT ![key] = [bucket |-> bucket, n |-> n]]
    /\ UNCHANGED <<now, tokenVars, callVars, cryptoVars, fwCounters, fwAdmitted, fwAdmittedAt, fwLast, slidingVars>>

\* Fixed window: the call of c returns, having read count from INCR
FwReturn(c, count) ==
    LET call == fcall[c]
        result == fixed_window_result(call.ts, count)
    IN
    /\ fcall' = [fcall EXCEPT ![c] = IdleCall]
    /\ fwLast' = [key |-> call.key, ts |-> call.ts, ord |-> call.ord,
                  limited |-> result.limited, retry_after |-> result.retry_after]
    /\ fwAdmitted' = IF result.limited THEN fwAdmitted
                     ELSE [fwAdmitted EXCEPT ![window_key(call.key, call.ts)] = @ + 1]
    /\ fwAdmittedAt' = IF result.limited THEN fwAdmittedAt
                       ELSE [fwAdmittedAt EXCEPT ![call.key][call.ts] = @ + 1]

\* Fixed window: count = await redis.incr(window_key); a count above 1
\* skips EXPIRE and the call returns
FwIncr(c) ==
    LET wk == window_key(fcall[c].key, fcall[c].ts)
        store == redis_incr(fwCounters, wk)
        count == store[wk].value
    IN
    /\ fcall[c].pc = "incr"
    /\ fwCounters' = store
    /\ IF count = 1
       THEN /\ fcall' = [fcall EXCEPT ![c].pc = "expire", ![c].count = count]
            /\ UNCHANGED <<fwAdmitted, fwAdmittedAt, fwLast>>
       ELSE FwReturn(c, count)
    /\ UNCHANGED <<now, tokenVars, callVars, cryptoVars, fwSeen, slidingVars>>

\* Fixed window: await redis.expire(window_key, window_seconds), then return
FwExpire(c) ==
    LET wk == window_key(fcall[c].key, fcall[c].ts) IN
    /\ fcall[c].pc = "expire"
    /\ fwCounters' = redis_expire(fwCounters, wk, WindowSeconds)
    /\ FwReturn(c, fcall[c].count)
    /\ UNCHANGED <<now, tokenVars, callVars, cryptoVars, fwSeen, slidingVars>>

\* Sliding window: now = time.time()
SwStart(c, key) ==
    /\ scall[c].pc = "idle"
    /\ swStarted[key] < MaxCalls
    /\ scall' = [scall EXCEPT ![c] =
                    [pc |-> "zadd", key |-> key, ts |-> now, ord |-> 0, count |-> 0]]
    /\ swStarted' = [swStarted EXCEPT ![key] = @ + 1]
    /\ UNCHANGED <<now, tokenVars, callVars, cryptoVars, fixedVars, swSets, swAdmitted, swLast>>

\* Sliding window: await redis.zadd(key, {str(now): now})
SwZadd(c) ==
    /\ scall[c].pc = "zadd"
    /\ swSets' = redis_zadd(swSets, scall[c].key, scall[c].ts)
    /\ scall' = [scall EXCEPT ![c].pc = "zrem"]
    /\ UNCHANGED <<now, tokenVars, callVars, cryptoVars, fixedVars, swStarted, swAdmitted, swLast>>

\* Sliding window: await redis.zremrangebyscore(key, 0, window_start)
SwZrem(c) ==
    /\ scall[c].pc = "zrem"
    /\ swSets' = redis_zremrangebyscore(swSets, scall[c].key, 0, scall[c].ts - WindowTicks)
    /\ scall' = [scall EXCEPT ![c].pc = "expire"]
    /\ UNCHANGED <<now, tokenVars, callVars, cryptoVars, fixedVars, swStarted, swAdmitted, swLast>>

\* Sliding window: await redis.expire(key, window_seconds)
SwExpire(c) ==
    /\ scall[c].pc = "expire"
    /\ swSets' = redis_expire(swSets, scall[c].key, WindowSeconds)
    /\ scall' = [scall EXCEPT ![c].pc = "zcard"]
    /\ UNCHANGED <<now, tokenVars, callVars, cryptoVars, fixedVars, swStarted, swAdmitted, swLast>>

\* Sliding window: the call of c returns, oldest being the reply of ZRANGE
SwReturn(c, count, oldest) ==
    LET call == scall[c]
        result == sliding_window_result(call.ts, count, oldest)
    IN
    /\ scall' = [scall EXCEPT ![c] = IdleCall]
    /\ swLast' = [key |-> call.key, ts |-> call.ts, ord |-> 0,
                  limited |-> result.limited, retry_after |-> result.retry_after]
    /\ swAdmitted' = IF result.limited THEN swAdmitted
                     ELSE [swAdmitted EXCEPT ![call.key][call.ts] = @ + 1]

\* Sliding window: count = await redis.zcard(key); within the limit the call
\* returns (False, 0)
SwZcard(c) ==
    LET count == redis_zcard(swSets, scall[c].key) IN
    /\ scall[c].pc = "zcard"
    /\ IF count > MaxRequests
       THEN /\ scall' = [scall EXCEPT ![c].pc = "zrange", ![c].count = count]
            /\ UNCHANGED <<swAdmitted, swLast>>
       ELSE SwReturn(c, count, {})
    /\ UNCHANGED <<now, tokenVars, callVars, cryptoVars, fixedVars, swSets, swStarted>>

\* Sliding window: oldest = await redis.zrange(key, 0, 0, withscores=True),
\* then return limited
SwZrange(c) ==
    /\ scall[c].pc = "zrange"
    /\ SwReturn(c, scall[c].count, redis_zrange_first(swSets, scall[c].key))
    /\ UNCHANGED <<now, tokenVars, callVars, cryptoVars, fixedVars, swSets, swStarted>>

\* The rate limiter runs against Redis
InitRate ==
    /\ now = 0
    /\ backend = "redis"
    /\ TokenInit /\ CallersIdle /\ RateInit /\ KeyManagerInit

\* Fixed window, one call at a time, each running to its return
NextFixed ==
    \/ Quiet /\ TickWindow
    \/ \E c \in RlCallers, key \in Keys : Quiet /\ FwStart(c, key)
    \/ \E c \in RlCallers : FwIncr(c)
    \/ \E c \in RlCallers : FwExpire(c)

SpecFixed == InitRate /\ [][NextFixed]_vars

\* Fixed window: the call of c ends between INCR and EXPIRE (the coroutine is
\* cancelled or the connection to Redis fails): nothing is returned
FwInterrupt(c) ==
    /\ fcall[c].pc = "expire"
    /\ fcall' = [fcall EXCEPT ![c] = IdleCall]
    /\ UNCHANGED <<now, tokenVars, callVars, cryptoVars, fwCounters, fwSeen, fwAdmitted, fwAdmittedAt, fwLast, slidingVars>>

\* Fixed window, one call at a time, each running to its return or to an
\* interruption; the clock and every call that is not interrupted go on
NextFixedLive ==
    \/ NextFixed
    \/ \E c \in RlCallers : FwInterrupt(c)

SpecFixedLive ==
    /\ InitRate /\ [][NextFixedLive]_vars
    /\ WF_vars(Quiet /\ TickWindow)
    /\ \A c \in RlCallers : WF_vars(FwIncr(c)) /\ WF_vars(FwExpire(c))

\* Fixed window, concurrent calls
NextFixedConc ==
    \/ TickWindow
    \/ \E c \in RlCallers, key \in Keys : FwStart(c, key)
    \/ \E c \in RlCallers : FwIncr(c)
    \/ \E c \in RlCallers : FwExpire(c)

SpecFixedConc == InitRate /\ [][NextFixedConc]_vars

\* Sliding window, concurrent calls
NextSliding ==
    \/ TickWindow
    \/ \E c \in RlCallers, key \in Keys : SwStart(c, key)
    \/ \E c \in RlCallers : SwZadd(c)
    \/ \E c \in RlCallers : SwZrem(c)
    \/ \E c \in RlCallers : SwExpire(c)
    \/ \E c \in RlCallers : SwZcard(c)
    \/ \E c \in RlCallers : SwZrange(c)

SpecSliding == InitRate /\ [][NextSliding]_vars

\* Sliding window, one call at a time, each running to its return
NextSlidingSeq ==
    \/ Quiet /\ TickWindow
    \/ \E c \in RlCallers, key \in Keys : Quiet /\ SwStart(c, key)
    \/ \E c \in RlCallers : SwZadd(c)
    \/ \E c \in RlCallers : SwZrem(c)
    \/ \E c \in RlCallers : SwExpire(c)
    \/ \E c \in RlCallers : SwZcard(c)
    \/ \E c \in RlCallers : SwZrange(c)

SpecSlidingSeq == InitRate /\ [][NextSlidingSeq]_vars

----------------------------------------------------------------------------
(* Encryption key manager. Bytes have two bits, blocks BlockSize bytes; the
   block cipher is a keyed permutation of blocks, the keyed hash an ideal one. *)

Byte == 0 .. 3
KeySpace == {1, 3}
Chars == {"a", "U+00E9"}
MASTER_KEY == "MASTER_KEY"

Plaintexts == UNION {[1 .. n -> Chars] : n \in 0 .. MaxLen}
IVs == [1 .. BlockSize -> Byte]

\* str.encode(): UTF-8, one byte for an ASCII character, a lead byte and a
\* continuation byte for a character beyond ASCII
RECURSIVE utf8_encode(_)
utf8_encode(text) ==
    IF text = << >> THEN << >>
    ELSE (IF Head(text) = "a" THEN <<1>> ELSE <<3, 2>>) \o utf8_encode(Tail(text))

\* bytes.decode(): the text, or UnicodeDecodeError
RECURSIVE utf8_decode(_)
utf8_decode(bytes) ==
    IF bytes = << >> THEN [ok |-> TRUE, text |-> << >>]
    ELSE IF bytes[1] = 1
    THEN LET rest == utf8_decode(Tail(bytes)) IN
         [ok |-> rest.ok, text |-> <<"a">> \o rest.text]
    ELSE IF bytes[1] = 3 /\ Len(bytes) >= 2 /\ bytes[2] = 2
    THEN LET rest == utf8_decode(SubSeq(bytes, 3, Len(bytes))) IN
         [ok |-> rest.ok, text |-> <<"U+00E9">> \o rest.text]
    ELSE [ok |-> FALSE, text |-> << >>]

\* b64encode: two bytes to one digit, a lone last byte to a digit and the
\* padding sign 16
RECURSIVE b64encode(_)
b64encode(bytes) ==
    IF bytes = << >> THEN << >>
    ELSE IF Len(bytes) = 1 THEN <<4 * bytes[1], 16>>
    ELSE <<(4 * bytes[1]) + bytes[2]>> \o b64encode(SubSeq(bytes, 3, Len(bytes)))

RECURSIVE b64decode(_)
b64decode(text) ==
    IF text = << >> THEN << >>
    ELSE IF Len(text) >= 2 /\ text[2] = 16 THEN <<text[1] \div 4>>
    ELSE <<text[1] \div 4, text[1] % 4>> \o b64decode(Tail(text))

\* The bitwise exclusive or of two bytes
xor(a, b) == (((a % 2) + (b % 2)) % 2) + 2 * (((a \div 2) + (b \div 2)) % 2)
XorBlock(x, y) == [i \in 1 .. BlockSize |-> xor(x[i], y[i])]

\* The block cipher under a key, and its inverse
AES_encrypt(key, block) ==
    [i \in 1 .. BlockSize |-> (block[BlockSize + 1 - i] + key) % 4]
AES_decrypt(key, block) ==
    [i \in 1 .. BlockSize |-> (block[BlockSize + 1 - i] + 4 - key) % 4]

\* modes.CBC(iv): encryptor.update(padded_data) + encryptor.finalize()
RECURSIVE cbc_encrypt(_, _, _)
cbc_encrypt(key, iv, data) ==
    IF data = << >> THEN << >>
    ELSE LET c == AES_encrypt(key, XorBlock(SubSeq(data, 1, BlockSize), iv)) IN
         c \o cbc_encrypt(key, c, SubSeq(data, BlockSize + 1, Len(data)))

\* Mutant of cbc_decrypt: every block is chained to the IV
RECURSIVE cbc_decrypt_iv(_, _, _)
cbc_decrypt_iv(key, iv, ciphertext) ==
    IF ciphertext = << >> THEN << >>
    ELSE LET c == SubSeq(ciphertext, 1, BlockSize) IN
         XorBlock(AES_decrypt(key, c), iv)
             \o cbc_decrypt_iv(key, iv, SubSeq(ciphertext, BlockSize + 1, Len(ciphertext)))

\* modes.CBC(iv): decryptor.update(ciphertext) + decryptor.finalize()
RECURSIVE cbc_decrypt(_, _, _)
cbc_decrypt(key, iv, ciphertext) ==
    IF ciphertext = << >> THEN << >>
    ELSE LET c == SubSeq(ciphertext, 1, BlockSize) IN
         XorBlock(AES_decrypt(key, c), iv)
             \o cbc_decrypt(key, c, SubSeq(ciphertext, BlockSize + 1, Len(ciphertext)))

\* padding.PKCS7(block_size).padder(): n bytes of value n, 1 <= n <= block size
pkcs7_pad(data) ==
    LET n == BlockSize - (Len(data) % BlockSize) IN
    data \o [i \in 1 .. n |-> n]

\* padding.PKCS7(block_size).unpadder(): the data, or ValueError
pkcs7_unpad(padded) ==
    LET len == Len(padded)
        n == padded[len]
    IN
    IF len = 0 \/ len % BlockSize # 0 THEN [ok |-> FALSE, bytes |-> << >>]
    ELSE IF n < 1 \/ n > BlockSize \/ \E i \in (len - n + 1) .. len : padded[i] # n
    THEN [ok |-> FALSE, bytes |-> << >>]
    ELSE [ok |-> TRUE, bytes |-> SubSeq(padded, 1, len - n)]

\* json.dumps(metadata): the entries in insertion order
json_dumps(metadata) ==
    << <<"kid", metadata.kid>>, <<"iv", metadata.iv>>, <<"ct", metadata.ct>> >>

\* hmac.HMAC(key, SHA256) over a message, and the base64 text of a digest
hmac(key, message) == [key |-> key, msg |-> message]
b64encode_tag(digest) == <<"b64", digest>>
b64decode_tag(text) == text[2]

\* EncryptionKeyManager.encrypt(data) with the IV that os.urandom returned
encrypt(data, iv) ==
    LET key_id == current_key_id
        key == keys[key_id]
        padded_data == pkcs7_pad(utf8_encode(data))
        ciphertext == cbc_encrypt(key, iv, padded_data)
        metadata == [kid |-> key_id, iv |-> b64encode(iv), ct |-> b64encode(ciphertext)]
    IN
    [kid |-> metadata.kid, iv |-> metadata.iv, ct |-> metadata.ct,
     tag |-> b64encode_tag(hmac(key, json_dumps(metadata)))]

\* Mutant of decrypt: the authentication tag is not verified
decrypt_notag(encrypted_data) ==
    LET key_id == encrypted_data.kid
        key == keys[key_id]
        unpadded == pkcs7_unpad(cbc_decrypt(key, b64decode(encrypted_data.iv),
                                            b64decode(encrypted_data.ct)))
        decoded == utf8_decode(unpadded.bytes)
    IN
    IF key_id \notin DOMAIN keys
    THEN [ok |-> FALSE, text |-> << >>, err |-> "Unknown key ID"]
    ELSE IF Len(b64decode(encrypted_data.iv)) # BlockSize
    THEN [ok |-> FALSE, text |-> << >>, err |-> "Invalid IV size"]
    ELSE IF Len(b64decode(encrypted_data.ct)) % BlockSize # 0
    THEN [ok |-> FALSE, text |-> << >>, err |-> "Not a multiple of the block length"]
    ELSE IF ~unpadded.ok
    THEN [ok |-> FALSE, text |-> << >>, err |-> "Invalid padding bytes"]
    ELSE IF ~decoded.ok
    THEN [ok |-> FALSE, text |-> << >>, err |-> "UnicodeDecodeError"]
    ELSE [ok |-> TRUE, text |-> decoded.text, err |-> "none"]

\* Mutant of decrypt: the authentication tag is verified after the cipher,
\* the unpadder and the decoder have run
decrypt_late(encrypted_data) ==
    LET key_id == encrypted_data.kid
        iv == b64decode(encrypted_data.iv)
        ciphertext == b64decode(encrypted_data.ct)
        tag == b64decode_tag(encrypted_data.tag)
        key == keys[key_id]
        metadata_for_verification ==
            [kid |-> key_id, iv |-> encrypted_data.iv, ct |-> encrypted_data.ct]
        unpadded == pkcs7_unpad(cbc_decrypt(key, iv, ciphertext))
        decoded == utf8_decode(unpadded.bytes)
    IN
    IF key_id \notin DOMAIN keys
    THEN [ok |-> FALSE, text |-> << >>, err |-> "Unknown key ID"]
    ELSE IF Len(iv) # BlockSize
    THEN [ok |-> FALSE, text |-> << >>, err |-> "Invalid IV size"]
    ELSE IF Len(ciphertext) % BlockSize # 0
    THEN [ok |-> FALSE, text |-> << >>, err |-> "Not a multiple of the block length"]
    ELSE IF ~unpadded.ok
    THEN [ok |-> FALSE, text |-> << >>, err |-> "Invalid padding bytes"]
    ELSE IF ~decoded.ok
    THEN [ok |-> FALSE, text |-> << >>, err |-> "UnicodeDecodeError"]
    ELSE IF tag # hmac(key, json_dumps(metadata_for_verification))
    THEN [ok |-> FALSE, text |-> << >>, err |-> "Invalid authentication tag"]
    ELSE [ok |-> TRUE, text |-> decoded.text, err |-> "none"]

\* EncryptionKeyManager.decrypt(encrypted_data): the plaintext or the error
decrypt(encrypted_data) ==
    LET key_id == encrypted_data.kid
        iv == b64decode(encrypted_data.iv)
        ciphertext == b64decode(encrypted_data.ct)
        tag == b64decode_tag(encrypted_data.tag)
        key == keys[key_id]
        metadata_for_verification ==
            [kid |-> key_id, iv |-> encrypted_data.iv, ct |-> encrypted_data.ct]
        unpadded == pkcs7_unpad(cbc_decrypt(key, iv, ciphertext))
        decoded == utf8_decode(unpadded.bytes)
    IN
    IF key_id \notin DOMAIN keys
    THEN [ok |-> FALSE, text |-> << >>, err |-> "Unknown key ID"]
    ELSE IF tag # hmac(key, json_dumps(metadata_for_verification))
    THEN [ok |-> FALSE, text |-> << >>, err |-> "Invalid authentication tag"]
    ELSE IF Len(iv) # BlockSize
    THEN [ok |-> FALSE, text |-> << >>, err |-> "Invalid IV size"]
    ELSE IF Len(ciphertext) % BlockSize # 0
    THEN [ok |-> FALSE, text |-> << >>, err |-> "Not a multiple of the block length"]
    ELSE IF ~unpadded.ok
    THEN [ok |-> FALSE, text |-> << >>, err |-> "Invalid padding bytes"]
    ELSE IF ~decoded.ok
    THEN [ok |-> FALSE, text |-> << >>, err |-> "UnicodeDecodeError"]
    ELSE [ok |-> TRUE, text |-> decoded.text, err |-> "none"]

\* Mutant of _generate_new_key: the new key replaces the keyring
_generate_new_key_only(key) ==
    LET key_id == Cardinality(DOMAIN keys) + 1 IN
    [keys |-> (key_id :> key), current_key_id |-> key_id]

\* _generate_new_key with the 256 bits os.urandom returned, under a fresh
\* uuid4: the keys and the current key id afterwards
_generate_new_key(key) ==
    LET key_id == Cardinality(DOMAIN keys) + 1 IN
    [keys |-> (key_id :> key) @@ keys, current_key_id |-> key_id]

\* _save_keys: the keys file, the keyring encrypted under the master key
_save_keys(ring) ==
    [exists |-> TRUE, master |-> MASTER_KEY,
     data |-> [current_key_id |-> ring.current_key_id,
               keys |-> [k \in DOMAIN ring.keys |-> b64encode(<<ring.keys[k]>>)]]]

\* Mutant of LoadOrInitializeKeys: the constructor generates and saves a key
\* whether or not the keys file can be loaded
LoadOrInitializeKeys_fresh ==
    /\ current_key_id = 0
    /\ \E key \in KeySpace :
          LET ring == _generate_new_key(key) IN
          /\ keys' = ring.keys
          /\ current_key_id' = ring.current_key_id
          /\ built' = "generated"
          /\ keysFile' = _save_keys(ring)
    /\ UNCHANGED <<now, tokenVars, callVars, fixedVars, slidingVars, procVars, sealed, plain, opened>>

\* _load_or_initialize_keys, run by the constructor: load the keys file, or
\* generate a first key and save it when the file is absent or unreadable
LoadOrInitializeKeys ==
    /\ current_key_id = 0
    /\ IF keysFile.exists /\ keysFile.master = MASTER_KEY
       THEN /\ keys' = [k \in DOMAIN keysFile.data.keys |-> b64decode(keysFile.data.keys[k])[1]]
            /\ current_key_id' = keysFile.data.current_key_id
            /\ built' = "loaded"
            /\ UNCHANGED keysFile
       ELSE \E key \in KeySpace :
               LET ring == _generate_new_key(key) IN
               /\ keys' = ring.keys
               /\ current_key_id' = ring.current_key_id
               /\ built' = "generated"
               /\ keysFile' = _save_keys(ring)
    /\ UNCHANGED <<now, tokenVars, callVars, fixedVars, slidingVars, procVars, sealed, plain, opened>>

\* rotateKey(): a new key becomes current, the keyring is saved
RotateKey(key) ==
    LET ring == _generate_new_key(key) IN
    /\ current_key_id # 0
    /\ Cardinality(DOMAIN keys) < MaxKeys
    /\ keys' = ring.keys
    /\ current_key_id' = ring.current_key_id
    /\ keysFile' = _save_keys(ring)
    /\ UNCHANGED <<now, tokenVars, callVars, fixedVars, slidingVars, procVars, sealed, plain, opened, built>>

\* encrypt(data); one payload is followed through each behaviour
Encrypt(data, iv) ==
    /\ current_key_id # 0
    /\ sealed = NoPayload
    /\ sealed' = encrypt(data, iv)
    /\ plain' = data
    /\ opened' = NotOpened
    /\ UNCHANGED <<now, tokenVars, callVars, fixedVars, slidingVars, procVars, keys, current_key_id, keysFile, built>>

\* decrypt(encrypted_data) of the payload that encrypt returned
Decrypt ==
    /\ current_key_id # 0
    /\ sealed # NoPayload
    /\ opened' = decrypt(sealed)
    /\ UNCHANGED <<now, tokenVars, callVars, fixedVars, slidingVars, procVars, keys, current_key_id, keysFile, sealed, plain, built>>

\* The process ends; the next one constructs its manager from the keys file
Restart ==
    /\ current_key_id # 0
    /\ keys' = << >>
    /\ current_key_id' = 0
    /\ built' = "none"
    /\ UNCHANGED <<now, tokenVars, callVars, fixedVars, slidingVars, procVars, keysFile, sealed, plain, opened>>

InitCrypto ==
    /\ now = 0
    /\ backend = "memory"
    /\ TokenInit /\ CallersIdle /\ RateInit /\ ManagerDown
    /\ keysFile \in {NoFile, ForeignFile}

NextCrypto ==
    \/ LoadOrInitializeKeys
    \/ \E key \in KeySpace : RotateKey(key)
    \/ \E data \in Plaintexts, iv \in IVs : Encrypt(data, iv)
    \/ Decrypt
    \/ Restart

SpecCrypto == InitCrypto /\ [][NextCrypto]_vars

----------------------------------------------------------------------------
(* Several processes, each with an EncryptionKeyManager on the same keys file *)

\* The keyring that _load_or_initialize_keys reads from the keys file
load_keys(file) ==
    [keys |-> [k \in DOMAIN file.data.keys |-> b64decode(file.data.keys[k])[1]],
     current_key_id |-> file.data.current_key_id]

\* _generate_new_key on the keyring of a process, under the uuid4 it drew
generate_key_in(ring, key_id, key) ==
    [keys |-> (key_id :> key) @@ ring.keys, current_key_id |-> key_id]

\* A process starts: __init__ sets keys = {} and current_key_id = None
ProcStart(p) ==
    /\ ppc[p] = "down"
    /\ ppc' = [ppc EXCEPT ![p] = "init"]
    /\ pkeys' = [pkeys EXCEPT ![p] = << >>]
    /\ pcurrent' = [pcurrent EXCEPT ![p] = 0]
    /\ UNCHANGED <<now, tokenVars, callVars, fixedVars, slidingVars>>
    /\ UNCHANGED <<keys, current_key_id, keysFile, sealed, plain, opened, built, tcall, uuids, referenced>>

\* _load_or_initialize_keys: open and read the keys file; a file that is
\* absent or unreadable leads to the except branch
ProcReadFile(p) ==
    /\ ppc[p] = "init"
    /\ IF keysFile.exists /\ keysFile.master = MASTER_KEY
       THEN /\ pkeys' = [pkeys EXCEPT ![p] = load_keys(keysFile).keys]
            /\ pcurrent' = [pcurrent EXCEPT ![p] = load_keys(keysFile).current_key_id]
            /\ ppc' = [ppc EXCEPT ![p] = "up"]
       ELSE /\ ppc' = [ppc EXCEPT ![p] = "generate"]
            /\ UNCHANGED <<pkeys, pcurrent>>
    /\ UNCHANGED <<now, tokenVars, callVars, fixedVars, slidingVars>>
    /\ UNCHANGED <<keys, current_key_id, keysFile, sealed, plain, opened, built, tcall, uuids, referenced>>

\* _generate_new_key and _save_keys: in the except branch of the constructor,
\* and on a rotation by a process that is up
ProcGenerateAndSave(p, key) ==
    LET ring == generate_key_in([keys |-> pkeys[p], current_key_id |-> pcurrent[p]],
                                uuids + 1, key)
    IN
    /\ ppc[p] \in {"generate", "up"}
    /\ uuids < MaxKeys
    /\ uuids' = uuids + 1
    /\ pkeys' = [pkeys EXCEPT ![p] = ring.keys]
    /\ pcurrent' = [pcurrent EXCEPT ![p] = ring.current_key_id]
    /\ keysFile' = _save_keys(ring)
    /\ ppc' = [ppc EXCEPT ![p] = "up"]
    /\ UNCHANGED <<now, tokenVars, callVars, fixedVars, slidingVars>>
    /\ UNCHANGED <<keys, current_key_id, sealed, plain, opened, built, tcall, referenced>>

\* encrypt in process p: the payload refers to the current key of p
ProcEncrypt(p) ==
    /\ ppc[p] = "up"
    /\ referenced' = referenced \cup {[kid |-> pcurrent[p], key |-> pkeys[p][pcurrent[p]]]}
    /\ UNCHANGED <<now, tokenVars, callVars, fixedVars, slidingVars>>
    /\ UNCHANGED <<keys, current_key_id, keysFile, sealed, plain, opened, built, tcall, ppc, pkeys, pcurrent, uuids>>

\* The process ends
ProcStop(p) ==
    /\ ppc[p] = "up"
    /\ ppc' = [ppc EXCEPT ![p] = "down"]
    /\ UNCHANGED <<now, tokenVars, callVars, fixedVars, slidingVars>>
    /\ UNCHANGED <<keys, current_key_id, keysFile, sealed, plain, opened, built, tcall, pkeys, pcurrent, uuids, referenced>>

NextKeyring ==
    \/ \E p \in Procs : ProcStart(p)
    \/ \E p \in Procs : ProcReadFile(p)
    \/ \E p \in Procs, key \in KeySpace : ProcGenerateAndSave(p, key)
    \/ \E p \in Procs : ProcEncrypt(p)
    \/ \E p \in Procs : ProcStop(p)

SpecKeyring == InitCrypto /\ [][NextKeyring]_vars

\* The keys file between open(self.keys_file, "w"), which empties it, and the
\* write of json.dump reaching it: json.load raises JSONDecodeError
TruncatedFile == [exists |-> TRUE, master |-> "none", data |-> NoFile.data]

\* rotate_key in thread t, _generate_new_key: self.keys[key_id] = os.urandom(32)
ThInsert(t, key) ==
    LET key_id == Cardinality(DOMAIN keys) + 1 IN
    /\ current_key_id # 0
    /\ tcall[t].pc = "idle"
    /\ Cardinality(DOMAIN keys) < MaxKeys + 1
    /\ keys' = (key_id :> key) @@ keys
    /\ tcall' = [tcall EXCEPT ![t] = [pc |-> "set", key_id |-> key_id, keys_data |-> NoFile.data]]
    /\ UNCHANGED <<now, tokenVars, callVars, fixedVars, slidingVars>>
    /\ UNCHANGED <<current_key_id, keysFile, sealed, plain, opened, built, ppc, pkeys, pcurrent, uuids, referenced>>

\* _generate_new_key: self.current_key_id = key_id
ThSetCurrent(t) ==
    /\ tcall[t].pc = "set"
    /\ current_key_id' = tcall[t].key_id
    /\ tcall' = [tcall EXCEPT ![t].pc = "current"]
    /\ UNCHANGED <<now, tokenVars, callVars, fixedVars, slidingVars>>
    /\ UNCHANGED <<keys, keysFile, sealed, plain, opened, built, ppc, pkeys, pcurrent, uuids, referenced>>

\* _save_keys: keys_data["current_key_id"] = self.current_key_id
ThReadCurrent(t) ==
    /\ tcall[t].pc = "current"
    /\ tcall' = [tcall EXCEPT ![t].pc = "keys",
                              ![t].keys_data.current_key_id = current_key_id]
    /\ UNCHANGED <<now, tokenVars, callVars, fixedVars, slidingVars>>
    /\ UNCHANGED <<keys, current_key_id, keysFile, sealed, plain, opened, built, ppc, pkeys, pcurrent, uuids, referenced>>

\* _save_keys: keys_data["keys"] = {k: b64encode(v) for k, v in self.keys.items()}
\* and the Fernet encryption of keys_data
ThReadKeys(t) ==
    /\ tcall[t].pc = "keys"
    /\ tcall' = [tcall EXCEPT ![t].pc = "open",
                              ![t].keys_data.keys = [k \in DOMAIN keys |-> b64encode(<<keys[k]>>)]]
    /\ UNCHANGED <<now, tokenVars, callVars, fixedVars, slidingVars>>
    /\ UNCHANGED <<keys, current_key_id, keysFile, sealed, plain, opened, built, ppc, pkeys, pcurrent, uuids, referenced>>

\* _save_keys: open(self.keys_file, "w") empties the file
ThOpen(t) ==
    /\ tcall[t].pc = "open"
    /\ keysFile' = TruncatedFile
    /\ tcall' = [tcall EXCEPT ![t].pc = "write"]
    /\ UNCHANGED <<now, tokenVars, callVars, fixedVars, slidingVars>>
    /\ UNCHANGED <<keys, current_key_id, sealed, plain, opened, built, ppc, pkeys, pcurrent, uuids, referenced>>

\* _save_keys: json.dump(...) and the close of the file; rotate_key returns
ThWrite(t) ==
    /\ tcall[t].pc = "write"
    /\ keysFile' = [exists |-> TRUE, master |-> MASTER_KEY, data |-> tcall[t].keys_data]
    /\ tcall' = [tcall EXCEPT ![t] = NoRotation]
    /\ UNCHANGED <<now, tokenVars, callVars, fixedVars, slidingVars>>
    /\ UNCHANGED <<keys, current_key_id, sealed, plain, opened, built, ppc, pkeys, pcurrent, uuids, referenced>>

\* encrypt in a thread that is in no rotate_key call: key_id =
\* self.current_key_id, key = self.keys[key_id]
ThEncrypt(t) ==
    /\ current_key_id # 0
    /\ tcall[t].pc = "idle"
    /\ current_key_id \in DOMAIN keys
    /\ referenced' = referenced \cup {[kid |-> current_key_id, key |-> keys[current_key_id]]}
    /\ UNCHANGED <<now, tokenVars, callVars, fixedVars, slidingVars>>
    /\ UNCHANGED <<keys, current_key_id, keysFile, sealed, plain, opened, built, ppc, pkeys, pcurrent, uuids, tcall>>

\* One process whose threads rotate and encrypt, and other processes that
\* construct their manager from the same keys file
NextThreads ==
    \/ LoadOrInitializeKeys
    \/ \E t \in Threads, key \in KeySpace : ThInsert(t, key)
    \/ \E t \in Threads : ThSetCurrent(t)
    \/ \E t \in Threads : ThReadCurrent(t)
    \/ \E t \in Threads : ThReadKeys(t)
    \/ \E t \in Threads : ThOpen(t)
    \/ \E t \in Threads : ThWrite(t)
    \/ \E t \in Threads : ThEncrypt(t)
    \/ \E p \in Procs : ProcStart(p)
    \/ \E p \in Procs : ProcReadFile(p)
    \/ \E p \in Procs : ProcStop(p)

SpecThreads == InitCrypto /\ [][NextThreads]_vars

----------------------------------------------------------------------------
(* Middleware pipeline: InputValidationMiddleware, RateLimitMiddleware and
   JWTMiddleware as configure_security_middlewares stacks them, and the route
   with its get_current_user dependency. add_middleware puts each middleware
   around those added before it, so a request meets the input validation
   first, then the rate limit, then the JWT check, then the route. *)

\* path.startswith(prefix)
startswith(path, prefix) ==
    Len(prefix) <= Len(path) /\ SubSeq(path, 1, Len(prefix)) = prefix

\* str(n) of a natural number: its decimal digits
RECURSIVE str(_)
str(n) == IF n < 10 THEN <<n>> ELSE Append(str(n \div 10), n % 10)

\* A JSONResponse a middleware returns in place of calling the next stage
JSONResponse(status_code, detail, headers) ==
    [status |-> status_code, detail |-> detail, headers |-> headers,
     handled |-> FALSE, user_id |-> "none", scopes |-> {},
     retry_after |-> 0, logged |-> << >>]

\* The response to a request whose processing raised an exception that no
\* middleware catches
ServerError == JSONResponse(500, "Internal Server Error", {})

\* The response of the route's handler, which ran with request.state as given
handler(state) ==
    [status |-> 200, detail |-> "ok", headers |-> {},
     handled |-> TRUE, user_id |-> state.user_id, scopes |-> state.scopes,
     retry_after |-> 0, logged |-> << >>]

\* request.state of a request the JWT middleware did not fill
NoState == [user_id |-> "none", scopes |-> {}]

\* Mutant of check_scopes: only the first required scope is looked at
check_scopes_first(required, granted) ==
    IF required = << >> THEN "ok"
    ELSE IF Head(required) \notin granted THEN "InsufficientScope"
    ELSE "ok"

\* get_current_user, the scope loop: the first required scope that the token
\* does not carry raises
RECURSIVE check_scopes(_, _)
check_scopes(required, granted) ==
    IF required = << >> THEN "ok"
    ELSE IF Head(required) \notin granted THEN "InsufficientScope"
    ELSE check_scopes(Tail(required), granted)

\* get_current_user(security_scopes, token): "ok" or the error raised
get_current_user(security_scopes, token) ==
    LET token_data == verify_jwt_token(token, "access") IN
    IF token_data.res # "ok" THEN token_data.res
    ELSE check_scopes(security_scopes, token_data.scopes)

\* The HTTPException a dependency raises, as the response FastAPI makes of it
http_exception(err) ==
    IF err = "InsufficientScope"
    THEN JSONResponse(403, "Not enough permissions", {})
    ELSE JSONResponse(401, "Could not validate credentials", {<<"WWW-Authenticate", "Bearer">>})

\* The route: its dependency, if it declares one, then its handler
route(req, state) ==
    IF req.path \in DOMAIN RouteScopes
    THEN LET r == get_current_user(RouteScopes[req.path], req.auth[2]) IN
         IF r = "ok" THEN handler(state) ELSE http_exception(r)
    ELSE handler(state)

\* JWTMiddleware._is_path_excluded
_is_path_excluded(path) ==
    \/ path \in PUBLIC_PATHS
    \/ \E prefix \in PUBLIC_PATH_PREFIXES : startswith(path, prefix)

\* Mutant of Unauthorized: the WWW-Authenticate header is left out
Unauthorized_bare(detail) == JSONResponse(401, detail, {})

\* The 401 responses of JWTMiddleware.dispatch
Unauthorized(detail) == JSONResponse(401, detail, {<<"WWW-Authenticate", "Bearer">>})

\* Mutant of JWTMiddleware_dispatch: the token type is not checked
JWTMiddleware_dispatch_nokind(req) ==
    IF _is_path_excluded(req.path) THEN route(req, NoState)
    ELSE IF req.auth = << >> THEN Unauthorized("Not authenticated")
    ELSE IF Len(req.auth) # 2 \/ req.auth[1] # "Bearer"
    THEN Unauthorized("Invalid authentication credentials")
    ELSE LET token == req.auth[2]
             payload == jwt_decode(token)
         IN
         IF payload = "ExpiredSignatureError" THEN Unauthorized("Token has expired")
         ELSE IF payload = "JWTError" THEN Unauthorized("Invalid token")
         ELSE IF backend = "redis" /\ ~redisUp THEN ServerError
         ELSE IF InBlacklist(token.jti) THEN Unauthorized("Token has been revoked")
         ELSE route(req, [user_id |-> token.sub, scopes |-> token.scopes])

\* JWTMiddleware.dispatch; the Authorization header is given by its parts
JWTMiddleware_dispatch(req) ==
    IF _is_path_excluded(req.path) THEN route(req, NoState)
    ELSE IF req.auth = << >> THEN Unauthorized("Not authenticated")
    ELSE IF Len(req.auth) # 2 \/ req.auth[1] # "Bearer"
    THEN Unauthorized("Invalid authentication credentials")
    ELSE LET token == req.auth[2]
             payload == jwt_decode(token)
         IN
         IF payload = "ExpiredSignatureError" THEN Unauthorized("Token has expired")
         ELSE IF payload = "JWTError" THEN Unauthorized("Invalid token")
         ELSE IF token.type # "access" THEN Unauthorized("Invalid token type")
         ELSE IF backend = "redis" /\ ~redisUp THEN ServerError
         ELSE IF InBlacklist(token.jti) THEN Unauthorized("Token has been revoked")
         ELSE route(req, [user_id |-> token.sub, scopes |-> token.scopes])

\* RateLimitMiddleware._default_key_func; every request comes from one address
_default_key_func(req) == <<"ratelimit", "10.0.0.1", req.path>>

\* FixedWindowStrategy.is_rate_limited, run to its return on the counters
\* given: the counters afterwards and the pair returned, or the error that
\* redis.incr raises when Redis does not answer, which nothing catches
is_rate_limited(store, key) ==
    LET timestamp == IntSeconds(now)
        wk == window_key(key, timestamp)
        incremented == redis_incr(store, wk)
        count == incremented[wk].value
        result == fixed_window_result(timestamp, count)
    IN
    IF ~redisUp
    THEN [store |-> store, limited |-> FALSE, retry_after |-> 0, error |-> TRUE]
    ELSE [store |-> IF count = 1 THEN redis_expire(incremented, wk, WindowSeconds)
                    ELSE incremented,
          limited |-> result.limited, retry_after |-> result.retry_after, error |-> FALSE]

\* Mutant of RateLimitMiddleware_dispatch: an error of the strategy is
\* swallowed and the request goes on
RateLimitMiddleware_dispatch_open(req, store) ==
    IF \E i \in DOMAIN config.exclude_paths : startswith(req.path, config.exclude_paths[i])
    THEN [response |-> JWTMiddleware_dispatch(req), store |-> store]
    ELSE LET r == is_rate_limited(store, _default_key_func(req)) IN
         IF r.limited
         THEN [response |-> [JSONResponse(429, "Too many requests",
                                          {<<"Retry-After", str(r.retry_after)>>})
                             EXCEPT !.retry_after = r.retry_after],
               store |-> r.store]
         ELSE [response |-> JWTMiddleware_dispatch(req), store |-> r.store]

\* RateLimitMiddleware.dispatch: the response and the counters afterwards
RateLimitMiddleware_dispatch(req, store) ==
    IF \E i \in DOMAIN config.exclude_paths : startswith(req.path, config.exclude_paths[i])
    THEN [response |-> JWTMiddleware_dispatch(req), store |-> store]
    ELSE LET r == is_rate_limited(store, _default_key_func(req)) IN
         IF r.error THEN [response |-> ServerError, store |-> store]
         ELSE IF r.limited
         THEN [response |-> [JSONResponse(429, "Too many requests",
                                          {<<"Retry-After", str(r.retry_after)>>})
                             EXCEPT !.retry_after = r.retry_after],
               store |-> r.store]
         ELSE [response |-> JWTMiddleware_dispatch(req), store |-> r.store]

\* InputValidationMiddleware._default_validation_rules
validation_rules ==
    << [pattern |-> "' OR 1=1 --", description |-> "SQL injection attempt detected"],
       [pattern |-> "<script>", description |-> "Cross-site scripting attempt detected"] >>

\* rule.pattern.search(content)
pattern_search(pattern, content) == \E i \in DOMAIN content : content[i] = pattern

\* body.decode() raises UnicodeDecodeError
UnicodeDecodeError(body) == \E i \in DOMAIN body : body[i] = "0xFF"

\* InputValidationMiddleware._validate_content: the descriptions of all the
\* rules whose pattern is found, in the order of the rules
_validate_content(content) ==
    LET matching == SelectSeq(validation_rules,
                              LAMBDA rule : pattern_search(rule.pattern, content))
    IN [i \in DOMAIN matching |-> matching[i].description]

\* InputValidationMiddleware.dispatch: the response, with what was logged,
\* and the counters afterwards
InputValidationMiddleware_dispatch(req, store) ==
    LET next == RateLimitMiddleware_dispatch(req, store) IN
    IF req.content_type # "application/json" /\ req.method \in {"POST", "PUT", "PATCH"}
    THEN next
    ELSE LET violations == IF ~UnicodeDecodeError(req.body) /\ req.body # << >>
                           THEN _validate_content(req.body) ELSE << >>
             logged == IF config.log_violations THEN violations ELSE << >>
         IN
         IF violations # << >> /\ config.block_violations
         THEN [response |-> [JSONResponse(400, "Invalid input detected", {})
                             EXCEPT !.logged = logged],
               store |-> store]
         ELSE [next EXCEPT !.response.logged = logged]

\* The Authorization headers a client can send
AuthHeaders ==
    {<< >>} \cup {<<"Token", t>> : t \in Issued} \cup {<<"Bearer", t>> : t \in Presentable}
\* The requests explored: every path with every Authorization header and a
\* harmless JSON body, and /api/items with every header, body and kind
Requests ==
    {[path |-> p, auth |-> a, body |-> <<"hello">>,
      method |-> "POST", content_type |-> "application/json"] :
        p \in Paths, a \in AuthHeaders}
    \cup
    {[path |-> <<"api", "items">>, auth |-> a, body |-> b,
      method |-> k.method, content_type |-> k.content_type] :
        a \in AuthHeaders, b \in Bodies, k \in Kinds}

\* What verify_jwt_token(token, access) says of the bearer token of a request
Verdict(req) ==
    IF Len(req.auth) = 2 /\ req.auth[1] = "Bearer"
    THEN verify_jwt_token(req.auth[2], "access").res
    ELSE "none"

\* One request goes through the application, from the outermost middleware
\* to its response
Dispatch(req) ==
    LET out == InputValidationMiddleware_dispatch(req, fwCounters)
        wk == window_key(_default_key_func(req), IntSeconds(now))
    IN
    /\ last = NoOutcome
    /\ \A k \in DOMAIN fwCounters : k = wk /\ fwCounters[k].value <= MaxRequests
    /\ fwCounters' = out.store
    /\ last' = [req |-> req, verdict |-> Verdict(req)] @@ out.response
    /\ UNCHANGED <<now, tokenVars, rpc, rtok, rout, config, redisUp, cryptoVars>>
    /\ UNCHANGED <<fcall, fwSeen, fwAdmitted, fwAdmittedAt, fwLast, slidingVars>>

\* The response is sent
Respond ==
    /\ last # NoOutcome
    /\ last' = NoOutcome
    /\ UNCHANGED <<now, tokenVars, rpc, rtok, rout, config, redisUp, fixedVars, slidingVars, cryptoVars>>

InitPipeline ==
    /\ now = 0
    /\ backend \in {"memory", "redis"}
    /\ TokenInit /\ RateInit /\ KeyManagerInit
    /\ rpc = [c \in Callers |-> "idle"]
    /\ rtok = [c \in Callers |-> 0]
    /\ rout = [c \in Callers |-> "none"]
    /\ config \in Configs
    /\ last = NoOutcome
    /\ redisUp = TRUE

\* Requests are answered one at a time; between them the clock advances and
\* tokens are revoked. Principals log in before the clock starts.
NextPipeline ==
    \/ last = NoOutcome /\ Tick
    \/ \E p \in Principals, k \in TokenTypes :
          /\ last = NoOutcome /\ now = 0 /\ Len(tokens) < MaxLogins
          /\ Issue(p.sub, p.scopes, k)
    \/ \E t \in Issued : last = NoOutcome /\ Revoke(t)
    \/ \E req \in Requests : Dispatch(req)
    \/ Respond

SpecPipeline == InitPipeline /\ [][NextPipeline]_vars

\* Redis stops answering, or answers again, between two requests
StoreDown ==
    /\ last = NoOutcome /\ redisUp
    /\ redisUp' = FALSE
    /\ UNCHANGED <<now, tokenVars, rpc, rtok, rout, config, last, fixedVars, slidingVars, cryptoVars>>

StoreUp ==
    /\ last = NoOutcome /\ ~redisUp
    /\ redisUp' = TRUE
    /\ UNCHANGED <<now, tokenVars, rpc, rtok, rout, config, last, fixedVars, slidingVars, cryptoVars>>

\* The application while Redis comes and goes, at one instant of the clock
NextOutage ==
    \/ StoreDown
    \/ StoreUp
    \/ \E p \in Principals, k \in TokenTypes :
          /\ last = NoOutcome /\ Len(tokens) < MaxLogins
          /\ Issue(p.sub, p.scopes, k)
    \/ \E t \in Issued : last = NoOutcome /\ redisUp /\ Revoke(t)
    \/ \E req \in Requests : Dispatch(req)
    \/ Respond

SpecOutage == InitPipeline /\ [][NextOutage]_vars

----------------------------------------------------------------------------
(* Claims on the token service *)

\* C1: a token returned by issue(subject, scopes, kind) is accepted by
\* verify(token, kind) at every time strictly before its expiry, unless it
\* was revoked, and verify returns exactly the subject and the scope set
\* that were given to issue.
C1_VerifyIssued ==
    \A j \in DOMAIN tokens :
        (now < tokens[j].exp /\ j \notin revoked) =>
            verify_jwt_token(tokens[j], given[j].type) =
                [res |-> "ok", sub |-> given[j].sub, scopes |-> given[j].scopes]

C1_Witness ==
    \E j \in DOMAIN tokens :
        /\ tokens[j].iat < now /\ now < tokens[j].exp /\ j \notin revoked
        /\ given[j].scopes = {"read", "write"}
        /\ verify_jwt_token(tokens[j], given[j].type).res = "ok"

\* C2: after revoke(t), every verify(t) up to t's natural expiry fails with
\* RevokedToken, whatever else happens in between.
C2_RevokedUntilExpiry ==
    \A j \in revoked :
        now < tokens[j].exp =>
            verify_jwt_token(tokens[j], tokens[j].type).res = "RevokedToken"

\* C3: after refresh(r) succeeds r is revoked: every later verify(r, refresh)
\* fails, hence every later refresh(r), and r yields a new pair at most once.
C3_RefreshSingleUse ==
    \A j \in DOMAIN tokens :
        refreshed[j] >= 1 =>
            /\ verify_jwt_token(tokens[j], "refresh").res # "ok"
            /\ refreshed[j] = 1

\* C4: of two refresh(r) calls with the same refresh token r, interleaved in
\* any way, at most one returns a new token pair.
C4_RefreshAtomic ==
    \A c \in Callers, d \in Callers :
        (c # d /\ rtok[c] = rtok[d]) => ~(rout[c] = "pair" /\ rout[d] = "pair")

\* C5: Expired and Revoked are terminal: once verify(t, k) fails with
\* ExpiredToken or RevokedToken it does not succeed afterwards.
C5_TerminalStates ==
    [][\A t \in Presentable, k \in TokenTypes :
          verify_jwt_token(t, k).res \in {"ExpiredToken", "RevokedToken"}
              => (verify_jwt_token(t, k).res)' # "ok"]_vars

\* The revocation store that is deployed holds a record for jti
InRevocationStore(jti) ==
    \/ backend = "memory" /\ jti \in TOKEN_BLACKLIST
    \/ backend = "redis" /\ jti \in DOMAIN redisBlacklist

\* C6: verify(token, expectedKind) succeeds iff none of the four rejection
\* conditions holds (now > expiry, integrity check fails, kind differs, JTI
\* in the revocation store), and when exactly one holds the error is the
\* matching one.
C6_VerifyDecision ==
    \A t \in Presentable, k \in TokenTypes :
        LET expired == now > t.exp
            badsig == t.sig # "SECRET_KEY"
            wrongkind == t.type # k
            isrevoked == InRevocationStore(t.jti)
            res == verify_jwt_token(t, k).res
        IN
        /\ res = "ok" <=> ~(expired \/ badsig \/ wrongkind \/ isrevoked)
        /\ (expired /\ ~badsig /\ ~wrongkind /\ ~isrevoked) => res = "ExpiredToken"
        /\ (~expired /\ badsig /\ ~wrongkind /\ ~isrevoked) => res = "InvalidSignature"
        /\ (~expired /\ ~badsig /\ wrongkind /\ ~isrevoked) => res = "WrongTokenKind"
        /\ (~expired /\ ~badsig /\ ~wrongkind /\ isrevoked) => res = "RevokedToken"

C6_Witness ==
    \E t \in Issued, u \in Issued :
        /\ InRevocationStore(t.jti) /\ now <= t.exp
        /\ verify_jwt_token(t, t.type).res = "RevokedToken"
        /\ verify_jwt_token(u, u.type).res = "ExpiredToken"
        /\ verify_jwt_token(Forge(t), t.type).res = "InvalidSignature"

----------------------------------------------------------------------------
(* Claims on the rate limiter *)

\* C7: fixed window under concurrent calls that share one key: each call
\* obtains a distinct counter value for its (key, bucket), so at most
\* max_requests calls are admitted per (key, bucket).
C7_FixedWindowConcurrent ==
    \A w \in Keys \X Buckets : fwAdmitted[w] <= MaxRequests

RECURSIVE SumOver(_, _)
SumOver(f, S) ==
    IF S = {} THEN 0
    ELSE LET x == CHOOSE y \in S : TRUE IN f[x] + SumOver(f, S \ {x})

\* C8: sliding window under concurrent calls, calls with the same timestamp
\* included: the admitted calls whose timestamps lie within any interval of
\* window_seconds never number more than max_requests.
C8_SlidingWindowConcurrent ==
    \A k \in Keys, t \in 0 .. RlMaxTime :
        SumOver(swAdmitted[k], {u \in 0 .. RlMaxTime : t - WindowTicks < u /\ u <= t})
            <= MaxRequests

\* C9: fixed window, calls one after the other: the first max_requests calls
\* for a key within a bucket are admitted, the first call of a new bucket
\* among them; every later call in the bucket is limited with retry_after
\* equal to the time from its timestamp to the next bucket boundary, which
\* is between 1 and window_seconds.
C9_FixedWindowScenario ==
    fwLast.key # "none" =>
        LET boundary == (fwLast.ts \div WindowSeconds + 1) * WindowSeconds IN
        /\ fwLast.ord <= MaxRequests => ~fwLast.limited
        /\ fwLast.ord > MaxRequests =>
              /\ fwLast.limited
              /\ fwLast.retry_after = boundary - fwLast.ts
              /\ 1 <= fwLast.retry_after /\ fwLast.retry_after <= WindowSeconds

C9_Witness ==
    /\ fwLast.key # "none" /\ fwLast.limited
    /\ fwLast.ord = MaxRequests + 1
    /\ fwLast.ts \div WindowSeconds = 1
    /\ fwLast.retry_after = 1
    /\ fwAdmitted[<<fwLast.key, 0>>] = MaxRequests
    /\ fwAdmitted[<<fwLast.key, 1>>] = MaxRequests

\* The calls admitted for key k with a timestamp among the n seconds that end
\* with second t
AdmittedWithin(k, t, n) ==
    SumOver(fwAdmittedAt[k], {u \in Timestamps : t - n < u /\ u <= t})

\* C23: fixed window, calls one after the other: the calls admitted for one
\* key number at most max_requests in each bucket and at most twice
\* max_requests within any interval of window_seconds. An interval of
\* window_seconds that starts anywhere lies within window_seconds + 1
\* consecutive timestamps, so the bound is stated for those.
C23_BoundaryBurst ==
    \A k \in Keys :
        /\ \A b \in Buckets : fwAdmitted[<<k, b>>] <= MaxRequests
        /\ \A t \in Timestamps : AdmittedWithin(k, t, WindowSeconds + 1) <= 2 * MaxRequests

\* Twice max_requests calls were admitted within window_seconds consecutive
\* timestamps: max_requests at the end of bucket 0 and max_requests at the
\* start of bucket 1
C23_Witness ==
    \E k \in Keys, t \in Timestamps :
        /\ AdmittedWithin(k, t, WindowSeconds) = 2 * MaxRequests
        /\ fwAdmitted[<<k, 0>>] = MaxRequests
        /\ fwAdmitted[<<k, 1>>] = MaxRequests

\* The last sliding-window call has just returned: no call is in flight and
\* the clock still shows its timestamp
SwJustReturned == Quiet /\ swLast.key # "none" /\ now = swLast.ts

\* The smallest element of a non-empty set of timestamps
Oldest(set) == CHOOSE m \in set : \A n \in set : m <= n

\* What the last sliding-window call left and returned, but for the value of
\* retry_after: the set of the key holds the timestamp of the call, every
\* admitted timestamp of the last window_seconds and nothing at or before
\* now - window_seconds; the call is limited exactly when the set holds more
\* than max_requests timestamps; retry_after is 0 when it is not limited and
\* between 1 and window_seconds when it is
SwPrunedAndCounted ==
    LET k == swLast.key
        t == swLast.ts
    IN
    /\ k \in DOMAIN swSets
    /\ t \in swSets[k].value
    /\ \A m \in swSets[k].value : t - WindowTicks < m /\ m <= t
    /\ \A u \in 0 .. RlMaxTime :
          (t - WindowTicks < u /\ u <= t /\ swAdmitted[k][u] > 0) => u \in swSets[k].value
    /\ swLast.limited <=> Cardinality(swSets[k].value) > MaxRequests
    /\ ~swLast.limited => swLast.retry_after = 0
    /\ swLast.limited => (1 <= swLast.retry_after /\ swLast.retry_after <= WindowSeconds)

\* The time in ticks from the last call until its oldest recorded timestamp
\* leaves the window
UntilOldestLeaves == WindowTicks - (swLast.ts - Oldest(swSets[swLast.key].value))

\* C27 as stated: sliding window, calls one after the other: entries older
\* than now - window_seconds are pruned, the timestamp is recorded, the
\* entries counted, and a limited call returns retry_after = window_seconds -
\* (now - oldest), between 1 and window_seconds.
C27_RetryAfterExact ==
    SwJustReturned =>
        /\ SwPrunedAndCounted
        /\ swLast.limited => swLast.retry_after * TicksPerSec = UntilOldestLeaves

\* C27 amended: as above, with retry_after = max(1, int(window_seconds -
\* (now - oldest))): the whole seconds of the time until the oldest entry
\* leaves the window, and 1 when that time is under a second.
C27_SlidingRetryAfter ==
    SwJustReturned =>
        /\ SwPrunedAndCounted
        /\ swLast.limited => swLast.retry_after = Max(1, IntTrunc(UntilOldestLeaves))

\* A limited call whose oldest entry leaves the window in less than a second:
\* retry_after is 1
C27_Witness ==
    /\ SwJustReturned /\ swLast.limited
    /\ UntilOldestLeaves > 0 /\ UntilOldestLeaves < TicksPerSec
    /\ swLast.retry_after = 1

\* C28: a counter that a fixed-window call created is removed from the store
\* once its window has elapsed, also when the call that created it was
\* interrupted between INCR and EXPIRE: the counters of the first window are
\* eventually gone for good.
C28_CountersRemoved ==
    \A k \in Keys : <>[](<<k, 0>> \notin DOMAIN fwCounters)

\* Fixed window: a call returns that was made retry_after seconds after the
\* last call for its key, which was limited
FwRetried(c) ==
    /\ fcall[c].pc \in {"incr", "expire"} /\ fcall'[c].pc = "idle" /\ fwLast' # fwLast
    /\ fwLast.key = fcall[c].key /\ fwLast.limited
    /\ fcall[c].ts = fwLast.ts + fwLast.retry_after

\* Sliding window: a call returns that was made retry_after seconds after the
\* last call for its key, which was limited
SwRetried(c) ==
    /\ scall[c].pc \in {"zcard", "zrange"} /\ scall'[c].pc = "idle"
    /\ swLast.key = scall[c].key /\ swLast.limited
    /\ scall[c].ts = swLast.ts + swLast.retry_after * TicksPerSec

\* Fixed window, calls one after the other: the call made retry_after seconds
\* after a limited call, with no call for the key in between, is admitted
FwRetrySufficient == [][\A c \in RlCallers : FwRetried(c) => ~fwLast'.limited]_vars

\* The same for the sliding window
SwRetrySufficient == [][\A c \in RlCallers : SwRetried(c) => ~swLast'.limited]_vars

\* C29: in both strategies, when a call is limited with retry_after = r and
\* no call for the key follows until r seconds later, the call made then is
\* admitted.
C29_RetryAfterSufficient == FwRetrySufficient /\ SwRetrySufficient

----------------------------------------------------------------------------
(* Claims on the encryption key manager *)

\* C10: decrypt(encrypt(p)) returns exactly p, for every plaintext p, the
\* empty one included, and every keyring that rotateKey calls have produced.
C10_RoundTrip ==
    opened # NotOpened => opened = [ok |-> TRUE, text |-> plain, err |-> "none"]

C10_Witness ==
    /\ opened # NotOpened /\ opened.ok
    /\ plain = << >>
    /\ sealed.kid = 2
    /\ Len(b64decode(sealed.ct)) = BlockSize

\* The bytes with byte i changed by the non-zero difference d
FlipByte(bytes, i, d) == [bytes EXCEPT ![i] = xor(@, d)]

\* Changed initialization vectors, ciphertexts, tags and key ids for a payload.
\* A changed tag is a digest of a party that does not hold the payload's key
\* for the metadata it presents.
TamperedIVs(payload) ==
    LET iv == b64decode(payload.iv) IN
    {b64encode(FlipByte(iv, i, 1)) : i \in 1 .. Len(iv)}

TamperedCTs(payload) ==
    LET ct == b64decode(payload.ct) IN
    {b64encode(FlipByte(ct, i, 2)) : i \in {1, Len(ct)}}
        \cup {b64encode(SubSeq(ct, 1, Len(ct) - BlockSize)), b64encode(ct \o <<0>>)}

TamperedTags(payload) ==
    {b64encode_tag(hmac(k, json_dumps(payload))) : k \in KeySpace \cup {0}} \ {payload.tag}

TamperedKids(payload) == (1 .. MaxKeys + 1) \ {payload.kid}

Tampered(payload) ==
    {[kid |-> kid, iv |-> iv, ct |-> ct, tag |-> tag] :
        kid \in {payload.kid} \cup TamperedKids(payload),
        iv \in {payload.iv} \cup TamperedIVs(payload),
        ct \in {payload.ct} \cup TamperedCTs(payload),
        tag \in {payload.tag} \cup TamperedTags(payload)} \ {payload}

\* C11: for a payload that encrypt returned, a change of its ciphertext, its
\* IV or its tag, or of several of them, makes decrypt fail with "Invalid
\* authentication tag"; a change of its key id makes decrypt fail with that
\* or with "Unknown key ID"; no changed payload decrypts to any plaintext.
C11_TamperDetected ==
    (current_key_id # 0 /\ sealed # NoPayload) =>
        \A v \in Tampered(sealed) :
            LET r == decrypt(v) IN
            /\ ~r.ok
            /\ v.kid = sealed.kid => r.err = "Invalid authentication tag"
            /\ v.kid # sealed.kid => r.err \in {"Unknown key ID", "Invalid authentication tag"}

C11_Witness ==
    /\ current_key_id # 0 /\ sealed # NoPayload
    /\ DOMAIN keys = {1, 2}
    /\ \E v \in Tampered(sealed) :
          /\ v.kid = sealed.kid /\ v.iv = sealed.iv /\ v.tag = sealed.tag
          /\ decrypt(v).err = "Invalid authentication tag"
          /\ decrypt_notag(v).ok
    /\ \E v \in Tampered(sealed) :
          v.kid \in DOMAIN keys /\ v.kid # sealed.kid
              /\ decrypt(v).err = "Invalid authentication tag"
    /\ \E v \in Tampered(sealed) : decrypt(v).err = "Unknown key ID"

\* The key id of the payload names a key of the keyring
KeyKnown(v) == v.kid \in DOMAIN keys

\* The tag of the payload is the HMAC, under the key it names, of its
\* key id, IV and ciphertext
TagVerifies(v) ==
    /\ KeyKnown(v)
    /\ b64decode_tag(v.tag) = hmac(keys[v.kid], json_dumps([kid |-> v.kid, iv |-> v.iv, ct |-> v.ct]))

\* The errors that the cipher, the unpadder and the decoder raise
CipherErrors ==
    {"Invalid IV size", "Not a multiple of the block length", "Invalid padding bytes",
     "UnicodeDecodeError"}

\* C24: decrypt checks in a fixed order: a payload whose key id names no key
\* fails with "Unknown key ID" whatever its tag; a payload with a known key
\* whose tag does not verify fails with "Invalid authentication tag"
\* whatever its ciphertext; only a payload whose tag verified gets a result
\* of the cipher, the unpadder or the decoder; and a failing decrypt returns
\* no plaintext.
C24_DecryptOrder ==
    (current_key_id # 0 /\ sealed # NoPayload) =>
        /\ \A v \in Tampered(sealed) \cup {sealed} :
              LET r == decrypt(v) IN
              /\ ~KeyKnown(v) => r.err = "Unknown key ID"
              /\ (KeyKnown(v) /\ ~TagVerifies(v)) => r.err = "Invalid authentication tag"
              /\ (r.ok \/ r.err \in CipherErrors) => TagVerifies(v)
              /\ r.ok <=> r.err = "none"
              /\ ~r.ok => r.text = << >>
        /\ opened # NotOpened => (opened.ok <=> opened.err = "none")
        /\ (opened # NotOpened /\ ~opened.ok) => opened.text = << >>

\* decrypt has returned the plaintext of a payload whose tag verifies; a
\* variant of it with an unknown key id and a changed tag fails on the key
\* id; and variants with the same key and tag and a changed ciphertext, which
\* the cipher would turn into text or into a padding error, fail on the tag
C24_Witness ==
    /\ current_key_id # 0 /\ sealed # NoPayload
    /\ opened # NotOpened /\ opened.ok /\ TagVerifies(sealed)
    /\ \E v \in Tampered(sealed) :
          /\ ~KeyKnown(v) /\ v.tag # sealed.tag
          /\ decrypt(v).err = "Unknown key ID"
    /\ \E v \in Tampered(sealed) :
          /\ v.kid = sealed.kid /\ v.tag = sealed.tag /\ ~TagVerifies(v)
          /\ decrypt_notag(v).ok
          /\ decrypt(v).err = "Invalid authentication tag"
    /\ \E v \in Tampered(sealed) :
          /\ v.kid = sealed.kid /\ v.tag = sealed.tag /\ ~TagVerifies(v)
          /\ decrypt_late(v).err \in CipherErrors
          /\ decrypt(v).err = "Invalid authentication tag"

\* C12: a rotation adds exactly one key, makes it the current one and
\* removes or changes no key; encrypt uses the current key; and a payload
\* encrypted earlier decrypts to its plaintext after any number of rotations.
C12_RotationKeepsOldData ==
    /\ []((current_key_id # 0 /\ sealed # NoPayload) =>
             decrypt(sealed) = [ok |-> TRUE, text |-> plain, err |-> "none"])
    /\ [][/\ (current_key_id # 0 /\ current_key_id' # 0 /\ current_key_id' # current_key_id) =>
                /\ current_key_id' \notin DOMAIN keys
                /\ DOMAIN keys' = DOMAIN keys \cup {current_key_id'}
                /\ \A k \in DOMAIN keys : keys'[k] = keys[k]
                /\ keysFile'.data.current_key_id = current_key_id'
                /\ DOMAIN keysFile'.data.keys = DOMAIN keys'
          /\ sealed' # sealed => sealed'.kid = current_key_id]_vars

C12_Witness ==
    /\ sealed.kid = 1 /\ current_key_id = 2
    /\ keys[1] # keys[2]
    /\ plain # << >>
    /\ decrypt(sealed).text = plain
    /\ opened.ok

\* The keys file exists and decrypts under the master key
Decryptable(file) == file.exists /\ file.master = MASTER_KEY

\* C25: constructing the manager is idempotent: with a keys file that
\* decrypts under the master key the constructor takes the keys and the
\* current key id of the file, generates no key and leaves the file as it
\* is; only with no file or an undecryptable one it generates one key and
\* saves a keys file that holds it. A manager that is up holds what its keys
\* file holds, and ending the process leaves the file alone, so constructing
\* again gives the same keys and the same current key id.
C25_InitIdempotent ==
    /\ [](current_key_id # 0 =>
             /\ Decryptable(keysFile)
             /\ keys = load_keys(keysFile).keys
             /\ current_key_id = load_keys(keysFile).current_key_id)
    /\ [][(current_key_id = 0 /\ current_key_id' # 0) =>
             IF Decryptable(keysFile)
             THEN /\ keysFile' = keysFile
                  /\ keys' = load_keys(keysFile).keys
                  /\ current_key_id' = load_keys(keysFile).current_key_id
                  /\ built' = "loaded"
             ELSE /\ built' = "generated"
                  /\ Cardinality(DOMAIN keys') = 1
                  /\ current_key_id' \in DOMAIN keys'
                  /\ keysFile' = _save_keys([keys |-> keys', current_key_id |-> current_key_id'])]_vars
    /\ [][current_key_id' = 0 => keysFile' = keysFile]_vars

\* A manager constructed from a keys file that a process before it wrote and
\* rotated: it holds both keys and the current key id of the file, and the
\* payload sealed before the restart decrypts
C25_Witness ==
    /\ built = "loaded"
    /\ DOMAIN keys = {1, 2} /\ current_key_id = 2
    /\ keys = load_keys(keysFile).keys
    /\ sealed # NoPayload /\ sealed.kid = 1
    /\ opened # NotOpened /\ opened.ok

\* C13: a key that some encrypt call has used is never dropped from the keys
\* file, whatever processes start, rotate and restart on it: any process
\* that loads the file finds the key under its id.
C13_ReferencedKeyKept ==
    \A r \in referenced :
        /\ keysFile.exists
        /\ r.kid \in DOMAIN load_keys(keysFile).keys
        /\ load_keys(keysFile).keys[r.kid] = r.key

\* No thread is in a rotate_key call
Returned == \A t \in Threads : tcall[t].pc = "idle"

\* C26: threads of one process rotate and encrypt in any interleaving: no key
\* is ever removed from the keyring or changed, the current key id names a
\* key of the keyring, once every call has returned the keys file holds the
\* keyring of the process, and a process that loads the keys file never
\* reads a partially written one.
C26_KeyringSerialized ==
    /\ [][\A k \in DOMAIN keys : current_key_id' # 0 => (k \in DOMAIN keys' /\ keys'[k] = keys[k])]_vars
    /\ [](current_key_id # 0 => current_key_id \in DOMAIN keys)
    /\ []((current_key_id # 0 /\ Returned) =>
             /\ Decryptable(keysFile)
             /\ load_keys(keysFile) = [keys |-> keys, current_key_id |-> current_key_id])
    /\ [][\A p \in Procs : (ppc[p] = "init" /\ ppc'[p] # "init") => keysFile # TruncatedFile]_vars

----------------------------------------------------------------------------
(* Claims on the middleware pipeline *)

\* The scopes a token can carry and the scope lists a route can declare
Scopes == {"read", "write", "admin"}
ScopeLists == UNION {[1 .. n -> Scopes] : n \in 0 .. 2}
Range(f) == {f[i] : i \in DOMAIN f}
\* The request went past the input validation and the rate limit
ReachedAuth == last # NoOutcome /\ last.status \notin {400, 429}
\* The request carried a bearer token that verified as an access token and
\* went to a route that declares scopes
ScopeChecked ==
    /\ ReachedAuth
    /\ last.req.path \in DOMAIN RouteScopes
    /\ last.verdict = "ok"

\* C14: the scope check succeeds if and only if every required scope is
\* among the granted scopes, so an empty requirement always succeeds; it
\* fails with InsufficientScope otherwise, and a request to a route that
\* declares scopes reaches the handler exactly when the scopes of its
\* verified token include them all.
C14_ScopeCheck ==
    /\ \A granted \in SUBSET Scopes, required \in ScopeLists :
          /\ check_scopes(required, granted) \in {"ok", "InsufficientScope"}
          /\ check_scopes(required, granted) = "ok" <=> Range(required) \subseteq granted
    /\ ScopeChecked =>
          IF Range(RouteScopes[last.req.path]) \subseteq last.req.auth[2].scopes
          THEN last.handled /\ last.status = 200
          ELSE ~last.handled /\ last.status = http_exception("InsufficientScope").status

\* A token granted {read} was refused on the route that requires read and write
C14_Witness ==
    /\ ScopeChecked
    /\ last.req.auth[2].scopes = {"read"}
    /\ RouteScopes[last.req.path] = <<"read", "write">>
    /\ ~last.handled

\* The validator refuses the request: reject mode, a body it reads, and a
\* rule whose pattern the body contains
Refused(req) ==
    /\ config.block_violations
    /\ req.content_type = "application/json" \/ req.method = "GET"
    /\ \A i \in DOMAIN req.body : req.body[i] # "0xFF"
    /\ \E i \in DOMAIN validation_rules, j \in DOMAIN req.body :
          req.body[j] = validation_rules[i].pattern
\* The rate limit applies to the path of the request
Metered(req) ==
    \A i \in DOMAIN config.exclude_paths : ~startswith(req.path, config.exclude_paths[i])
\* The counter the rate limiter holds for the request just answered, and
\* what the strategy returned on reading it
CountOf(req) == fwCounters[window_key(_default_key_func(req), IntSeconds(now))].value
Limited(req) == Metered(req) /\ CountOf(req) > MaxRequests
StrategyRetryAfter(req) == fixed_window_result(IntSeconds(now), CountOf(req)).retry_after
\* The scopes of the bearer token do not cover those the route declares
Uncovered(req) ==
    /\ req.path \in DOMAIN RouteScopes
    /\ ~(Range(RouteScopes[req.path]) \subseteq req.auth[2].scopes)

RevocationRecords == TOKEN_BLACKLIST \cup DOMAIN redisBlacklist

\* C17: the revocation store holds no record for a token whose expiry has
\* passed, and never more records than there are revoked tokens that have
\* not yet expired.
C17_NoStaleRecords ==
    /\ \A jti \in RevocationRecords : now <= tokens[jti].exp
    /\ Cardinality(RevocationRecords)
          <= Cardinality({jti \in revoked : now <= tokens[jti].exp})

\* What a client sees of a response: status line, headers and JSON body
External(response) ==
    [status |-> response.status, headers |-> response.headers, detail |-> response.detail]
\* A request for /api/items that carries the token as its bearer credential
BearerRequest(token) ==
    [path |-> <<"api", "items">>, auth |-> <<"Bearer", token>>, body |-> <<"hello">>,
     method |-> "POST", content_type |-> "application/json"]

\* C18: the JWT middleware answers a token it rejects as revoked with the
\* same status, headers and body as a token it rejects for its signature.
C18_SameRejection ==
    \A t \in Issued :
        (jwt_decode(t) = "payload" /\ t.type = "access" /\ InBlacklist(t.jti)) =>
            External(JWTMiddleware_dispatch(BearerRequest(t)))
                = External(JWTMiddleware_dispatch(BearerRequest(Forge(t))))

\* The body is text: it decodes as UTF-8
Textual(body) == \A i \in DOMAIN body : body[i] # "0xFF"
\* The rules whose pattern occurs in the body, by their position
Matching(body) ==
    {i \in DOMAIN validation_rules :
        \E j \in DOMAIN body : body[j] = validation_rules[i].pattern}
\* The request went on to the stage after the validator
Forwarded == last.status # 400

\* C19: a textual body is checked against all the rules and every violation
\* is collected; in reject mode a request whose textual body matches a rule
\* is answered 400 and not forwarded; in log-and-allow mode every request is
\* forwarded; a body that matches no rule, is empty or is not text is
\* forwarded in both modes.
C19_ValidatorModes ==
    last # NoOutcome =>
        LET body == last.req.body IN
        /\ (Textual(body) /\ config.log_violations) =>
              /\ Len(last.logged) = Cardinality(Matching(body))
              /\ \A i \in Matching(body) :
                    \E k \in DOMAIN last.logged : last.logged[k] = validation_rules[i].description
        /\ (config.block_violations /\ Textual(body) /\ Matching(body) # {}) =>
              ~Forwarded /\ ~last.handled
        /\ ~config.block_violations => Forwarded
        /\ (~Textual(body) \/ body = << >> \/ Matching(body) = {}) => Forwarded

\* The path is exempt from authentication by configuration: listed in the
\* exclude_paths given to configure_security_middlewares, or public by the
\* module constants
ConfiguredExempt(path) ==
    \/ \E i \in DOMAIN config.exclude_paths : path = config.exclude_paths[i]
    \/ path \in PUBLIC_PATHS
    \/ \E prefix \in PUBLIC_PATH_PREFIXES : startswith(path, prefix)

\* C20: a request that reaches the JWT middleware on a path configured as
\* exempt goes to its handler whatever Authorization header it carries, and
\* a request on any other path goes to its handler only with a bearer token
\* that verifies as an access token.
C20_ExemptPathsHonoured ==
    ReachedAuth =>
        /\ ConfiguredExempt(last.req.path) => last.handled
        /\ (~ConfiguredExempt(last.req.path) /\ last.handled) => last.verdict = "ok"

\* C21: a request that is answered 400, 401 or 403 (it failed the input
\* validation, the token verification or the scope check) leaves every
\* rate-limit counter as it was.
C21_FailuresSkipRateLimit ==
    [][(last = NoOutcome /\ last' # NoOutcome /\ last'.status \in {400, 401, 403})
          => fwCounters' = fwCounters]_vars

\* The JWT middleware comes to look the token of the request up in the
\* revocation records kept in Redis
LooksUpRevocation(req) ==
    /\ backend = "redis"
    /\ ~_is_path_excluded(req.path)
    /\ Len(req.auth) = 2 /\ req.auth[1] = "Bearer"
    /\ jwt_decode(req.auth[2]) = "payload"
    /\ req.auth[2].type = "access"
\* Answering the request takes a Redis command
NeedsStore(req) == ~Refused(req) /\ (Metered(req) \/ LooksUpRevocation(req))

\* C22: while Redis does not answer, every request that needs it, for its
\* rate-limit counter or for the revocation lookup, is answered 500 without
\* reaching its handler, and only such requests are; the failed command is
\* not sent again and leaves no trace in the counters.
C22_StoreOutageTerminal ==
    /\ [](last # NoOutcome =>
             /\ last.status = 500 <=> (~redisUp /\ NeedsStore(last.req))
             /\ last.status = 500 => ~last.handled /\ last.user_id = "none")
    /\ [][~redisUp => fwCounters' = fwCounters]_vars

\* A request was answered 500 while Redis did not answer although it
\* carried a token that verifies
C22_Witness ==
    /\ ~redisUp
    /\ last.status = 500
    /\ last.verdict = "ok"

\* The request went through the JWT middleware's token check: it carried a
\* bearer token on a path the middleware does not exclude
TokenChecked ==
    /\ ReachedAuth
    /\ ~_is_path_excluded(last.req.path)
    /\ Len(last.req.auth) = 2 /\ last.req.auth[1] = "Bearer"

\* The JWT middleware forwards exactly the requests whose token
\* verify_jwt_token accepts as an access token
MiddlewareAgrees ==
    TokenChecked =>
        (last.status # 401 <=> verify_jwt_token(last.req.auth[2], "access").res = "ok")

\* The JWT middleware rejects a token that was revoked and has not expired
RevokedRejected ==
    TokenChecked =>
        LET token == last.req.auth[2] IN
        (token \in Issued /\ token.jti \in revoked /\ now < token.exp) => last.status = 401

\* C30: the JWT middleware forwards a request if and only if
\* verify_jwt_token(token, access) succeeds, and from revoke(token) until the
\* expiry of the token it rejects every request that carries it, whichever
\* revocation store is deployed.
C30_MiddlewareAsVerify == MiddlewareAgrees /\ RevokedRejected

====
